---- MODULE Spec2Model ----
(***************************************************************************)
(* Order-creation workflow and error taxonomy of go-micro.                *)
(*                                                                         *)
(* Spec     the order use case (CreateOrder / GetOrder) with its           *)
(*          collaborators: remote user lookup, order repository, event     *)
(*          publisher, and the request context.                            *)
(* SpecErr  the pkg/errors functions applied to bounded error values.      *)
(***************************************************************************)
EXTENDS Integers, Sequences, FiniteSets, TLC

(***************************************************************************)
(* pkg/errors                                                              *)
(***************************************************************************)

CodeValidation == "VALIDATION_ERROR"
CodeNotFound == "NOT_FOUND"
CodeConflict == "CONFLICT"
CodeInternal == "INTERNAL_ERROR"
CodeUnauthorized == "UNAUTHORIZED"
CodeForbidden == "FORBIDDEN"

\* The six kinds of the taxonomy.
Codes ==
  {CodeValidation, CodeNotFound, CodeConflict, CodeInternal, CodeUnauthorized, CodeForbidden}

\* net/http status codes used by the package.
StatusBadRequest == 400
StatusUnauthorized == 401
StatusForbidden == 403
StatusNotFound == 404
StatusConflict == 409
StatusInternalServerError == 500

\* An error value is a record [typ, Code, Message, Details, Err]:
\*   typ = "app"     *AppError; Code is its kind
\*   typ = "status"  gRPC status error; Code is the codes.Code name
\*   typ = "plain"   any other error (driver error, fmt.Errorf, context error)
\* Details is <<>> (nil) or a sequence of <<key, value>> pairs; Err is <<>>
\* (nil) or <<cause>>.  A nil error is <<>>, a non-nil error e is <<e>> where
\* a function returns "error".
NoDetails == <<>>
NoErr == <<>>

AppError(code, message, details, err) ==
  [typ |-> "app", Code |-> code, Message |-> message, Details |-> details, Err |-> err]

\* status.Error(code, msg)
StatusError(code, message) ==
  [typ |-> "status", Code |-> code, Message |-> message, Details |-> NoDetails, Err |-> NoErr]

\* errors.New(text) / a driver error
PlainError(text) ==
  [typ |-> "plain", Code |-> "", Message |-> text, Details |-> NoDetails, Err |-> NoErr]

\* fmt.Errorf(text + ": %w", cause)
Errorf(text, cause) ==
  [typ |-> "plain", Code |-> "", Message |-> text \o ": " \o cause.Message,
   Details |-> NoDetails, Err |-> <<cause>>]

\* errors.As(err, &appErr): the first *AppError on the Unwrap chain, as <<e>>,
\* or <<>> when the chain holds none.
RECURSIVE As(_)
As(err) ==
  IF err.typ = "app" THEN <<err>>
  ELSE IF err.Err = NoErr THEN <<>>
  ELSE As(err.Err[1])

NewValidation(message, details) == AppError(CodeValidation, message, details, NoErr)

NewNotFound(resource, id) ==
  AppError(CodeNotFound, resource \o " with id '" \o ToString(id) \o "' not found",
           NoDetails, NoErr)

NewConflict(message) == AppError(CodeConflict, message, NoDetails, NoErr)

NewInternal(message, err) == AppError(CodeInternal, message, NoDetails, err)

NewUnauthorized(message) == AppError(CodeUnauthorized, message, NoDetails, NoErr)

HTTPStatusMut(err) ==
  LET a == As(err) IN
  IF a = <<>> THEN StatusInternalServerError
  ELSE CASE a[1].Code = CodeValidation -> StatusBadRequest
         [] a[1].Code = CodeNotFound -> StatusNotFound
         [] a[1].Code = CodeConflict -> StatusConflict
         [] a[1].Code = CodeUnauthorized -> StatusForbidden
         [] a[1].Code = CodeForbidden -> StatusForbidden
         [] OTHER -> StatusInternalServerError

HTTPStatus(err) ==
  LET a == As(err) IN
  IF a = <<>> THEN StatusInternalServerError
  ELSE CASE a[1].Code = CodeValidation -> StatusBadRequest
         [] a[1].Code = CodeNotFound -> StatusNotFound
         [] a[1].Code = CodeConflict -> StatusConflict
         [] a[1].Code = CodeUnauthorized -> StatusUnauthorized
         [] a[1].Code = CodeForbidden -> StatusForbidden
         [] OTHER -> StatusInternalServerError

\* ToJSON returns (status, body); the body is the ErrorResponse that is
\* marshalled: {"error": {code, message, details}, "trace_id"}.
ToJSON(err, traceID) ==
  LET a == As(err)
      appErr == IF a = <<>>
                THEN AppError(CodeInternal, "An internal error occurred", NoDetails, NoErr)
                ELSE a[1]
  IN [status |-> HTTPStatus(appErr),
      body |-> [error |-> [code |-> appErr.Code, message |-> appErr.Message,
                           details |-> appErr.Details],
                trace_id |-> traceID]]

\* gRPC codes.Code names.
GOK == "OK"
GCanceled == "Canceled"
GUnknown == "Unknown"
GInvalidArgument == "InvalidArgument"
GDeadlineExceeded == "DeadlineExceeded"
GNotFound == "NotFound"
GAlreadyExists == "AlreadyExists"
GPermissionDenied == "PermissionDenied"
GInternal == "Internal"
GUnavailable == "Unavailable"
GUnauthenticated == "Unauthenticated"

GRPCStatusMut(err) ==
  LET a == As(err) IN
  IF a = <<>> THEN StatusError(GInternal, "internal error")
  ELSE StatusError(
         CASE a[1].Code = CodeValidation -> GInvalidArgument
           [] a[1].Code = CodeNotFound -> GNotFound
           [] a[1].Code = CodeConflict -> GInvalidArgument
           [] a[1].Code = CodeUnauthorized -> GUnauthenticated
           [] a[1].Code = CodeForbidden -> GPermissionDenied
           [] OTHER -> GInternal,
         a[1].Message)

GRPCStatus(err) ==
  LET a == As(err) IN
  IF a = <<>> THEN StatusError(GInternal, "internal error")
  ELSE StatusError(
         CASE a[1].Code = CodeValidation -> GInvalidArgument
           [] a[1].Code = CodeNotFound -> GNotFound
           [] a[1].Code = CodeConflict -> GAlreadyExists
           [] a[1].Code = CodeUnauthorized -> GUnauthenticated
           [] a[1].Code = CodeForbidden -> GPermissionDenied
           [] OTHER -> GInternal,
         a[1].Message)

\* err.Error(): the text of an error value.
RECURSIVE Error(_)
Error(err) ==
  CASE err.typ = "app" ->
         IF err.Err /= NoErr
         THEN err.Code \o ": " \o err.Message \o ": " \o Error(err.Err[1])
         ELSE err.Code \o ": " \o err.Message
    [] err.typ = "status" -> "rpc error: code = " \o err.Code \o " desc = " \o err.Message
    [] OTHER -> err.Message

\* errors.As(err, &grpcstatus): the first gRPC status error on the Unwrap
\* chain, as <<e>>, or <<>>.
RECURSIVE AsStatus(_)
AsStatus(err) ==
  IF err.typ = "status" THEN <<err>>
  ELSE IF err.Err = NoErr THEN <<>>
  ELSE AsStatus(err.Err[1])

FromErrorMut(err) ==
  IF err.typ = "status" THEN [st |-> err, ok |-> TRUE]
  ELSE [st |-> StatusError(GUnknown, Error(err)), ok |-> FALSE]

\* status.FromError(err) for a non-nil err, as (st, ok): a status error is
\* returned as it is; an error that wraps a status error yields that status'
\* code with err.Error() as message; any other error is no status.
FromError(err) ==
  IF err.typ = "status" THEN [st |-> err, ok |-> TRUE]
  ELSE IF AsStatus(err) /= <<>>
  THEN [st |-> StatusError(AsStatus(err)[1].Code, Error(err)), ok |-> TRUE]
  ELSE [st |-> StatusError(GUnknown, Error(err)), ok |-> FALSE]

FromGRPCStatus(err) ==
  LET r == FromError(err) IN
  IF ~r.ok THEN NewInternal("unknown error", <<err>>)
  ELSE AppError(
         CASE r.st.Code = GInvalidArgument -> CodeValidation
           [] r.st.Code = GNotFound -> CodeNotFound
           [] r.st.Code = GAlreadyExists -> CodeConflict
           [] r.st.Code = GUnauthenticated -> CodeUnauthorized
           [] r.st.Code = GPermissionDenied -> CodeForbidden
           [] OTHER -> CodeInternal,
         r.st.Message, NoDetails, <<err>>)

Is(err, code) ==
  LET a == As(err) IN
  IF a /= <<>> THEN a[1].Code = code ELSE FALSE

WrapMut(err, message) ==
  LET a == As(err) IN
  IF a /= <<>>
  THEN AppError(a[1].Code, message \o ": " \o a[1].Message, NoDetails, <<err>>)
  ELSE NewInternal(message, <<err>>)

Wrap(err, message) ==
  LET a == As(err) IN
  IF a /= <<>>
  THEN AppError(a[1].Code, message \o ": " \o a[1].Message, a[1].Details, <<err>>)
  ELSE NewInternal(message, <<err>>)

(***************************************************************************)
(* internal/orders/domain                                                  *)
(***************************************************************************)

OrderStatusPending == "pending"
OrderStatusConfirmed == "confirmed"
OrderStatusCancelled == "cancelled"

\* Upper limit of Order.Total.
MaxTotal == 1000000

\* A float64 (Order.Total, CreateOrderInput.Total) is F(n) for the number n,
\* or NaN.  An ordered comparison with a NaN operand is false.
F(n) == [nan |-> FALSE, v |-> n]
NaN == [nan |-> TRUE, v |-> 0]

FloatLE(a, b) == ~a.nan /\ ~b.nan /\ a.v <= b.v
FloatLT(a, b) == ~a.nan /\ ~b.nan /\ a.v < b.v
FloatGT(a, b) == ~a.nan /\ ~b.nan /\ a.v > b.v

ErrUserIDRequired == NewValidation("user_id is required", NoDetails)
ErrInvalidTotal == NewValidation("total must be greater than 0", NoDetails)
ErrTotalTooHigh == NewValidation("total cannot exceed 1,000,000", NoDetails)

NewOrderNotFound(id) == NewNotFound("order", id)

NewUserNotFoundError(userID) ==
  NewValidation("user not found", << <<"user_id", userID>> >>)

ValidateMut(o) ==
  IF o.UserID = 0 THEN <<ErrUserIDRequired>>
  ELSE IF FloatLT(o.Total, F(0)) THEN <<ErrInvalidTotal>>
  ELSE IF FloatGT(o.Total, F(MaxTotal)) THEN <<ErrTotalTooHigh>>
  ELSE <<>>

\* Order.Validate: <<>> (nil) or <<err>>.
Validate(o) ==
  IF o.UserID = 0 THEN <<ErrUserIDRequired>>
  ELSE IF FloatLE(o.Total, F(0)) THEN <<ErrInvalidTotal>>
  ELSE IF FloatGT(o.Total, F(MaxTotal)) THEN <<ErrTotalTooHigh>>
  ELSE <<>>

NewOrderMut(userID, total) ==
  LET order == [ID |-> 0, UserID |-> userID, Total |-> total, Status |-> OrderStatusConfirmed]
  IN IF Validate(order) /= <<>>
     THEN [order |-> <<>>, err |-> Validate(order)]
     ELSE [order |-> <<order>>, err |-> <<>>]

\* NewOrder returns (order, err); ID is zero until the store assigns one.
NewOrder(userID, total) ==
  LET order == [ID |-> 0, UserID |-> userID, Total |-> total, Status |-> OrderStatusPending]
  IN IF Validate(order) /= <<>>
     THEN [order |-> <<>>, err |-> Validate(order)]
     ELSE [order |-> <<order>>, err |-> <<>>]

(***************************************************************************)
(* Bounds and input sets                                                   *)
(***************************************************************************)

\* Number of request handlers that may run CreateOrder concurrently.
MaxCalls == 2

Procs == 1 .. MaxCalls

\* User ids a caller may send: 0 is the unset value.
UserIDs == {0, 1, 2}

\* Users the users service knows (the ids for which GetUser succeeds).
RemoteUsers == {1}

\* Totals a caller may send: the lower limit (rejected), the upper limit
\* (accepted), the first total above it (rejected), and NaN, which a gRPC
\* caller can put in the request's double field.
Totals == {F(0), F(MaxTotal), F(MaxTotal + 1), NaN}

\* Status codes with which the lookup RPC can fail besides NotFound: one that
\* FromGRPCStatus maps to a kind of its own and one that it does not know
\* (the client interceptor's timeout).
LookupFailCodes == {GUnauthenticated, GDeadlineExceeded}

\* The requests a caller sends: every user id with the accepted total, every
\* total for the known user, and the request with both fields unset.
Inputs ==
  {[UserID |-> uid, Total |-> F(MaxTotal)] : uid \in UserIDs}
  \cup {[UserID |-> 1, Total |-> t] : t \in Totals}
  \cup {[UserID |-> 0, Total |-> F(0)]}

\* How a collaborator of the use case was handed to NewOrderUseCase:
\*   "nil"       the nil interface value
\*   "typednil"  main's pointer variable that was never assigned (a non-nil
\*               interface value holding a nil pointer)
\*   "ok"        a constructed adapter
Wirings == {"nil", "typednil", "ok"}

(***************************************************************************)
(* State                                                                   *)
(***************************************************************************)

VARIABLES
  userClient,  \* OrderUseCase.userClient, a Wirings value
  publisher,   \* OrderUseCase.publisher, a Wirings value
  pc,          \* per handler: "idle", "lookup", "create", "publish", "done"
  input,       \* per handler: CreateOrderInput
  ctx,         \* per handler: the request context, "live" or "done"
  order,       \* per handler: the *domain.Order in flight, <<>> or <<order>>
  calls,       \* per handler: the collaborator calls made, with their outcome,
               \* and the moment the context finished ("ctx.Done")
  result,      \* per handler: what CreateOrder returned
  store,       \* the orders table: row i has primary key i
  events,      \* the messages published on the orders exchange
  errVal,      \* SpecErr: the error value under test, <<>> or <<e>>
  errOut,      \* SpecErr: the last pkg/errors function applied, with its result
  errTrail,    \* SpecErr: the conversions that produced errVal, oldest first
  valIn,       \* SpecVal: the entities handed to the validators
  valOut,      \* SpecVal: the validator last applied, with its result
  usrPc,       \* SpecUsr, per handler: "idle", "check", "create", "publish", "done"
  usrIn,       \* SpecUsr, per handler: CreateUserInput
  usrUser,     \* SpecUsr, per handler: the *domain.User in flight, <<>> or <<user>>
  usrResult,   \* SpecUsr, per handler: what CreateUser returned
  usrStore,    \* SpecUsr: the rows of the users table
  usrSeq,      \* SpecUsr: last value of the users id sequence
  usrEvents,   \* SpecUsr: the messages published on the users exchange
  usrPublisher,\* SpecUsr: UserUseCase.publisher, a Wirings value
  usrCalls,    \* SpecUsr, per handler: the collaborator calls made, with their outcome
  gwPc,        \* SpecGw: "idle", "rpc" (call on the wire), "reply" (answer on the wire)
  gwReq,       \* SpecGw: the request being handled
  gwWire,      \* SpecGw: the RPC on the wire: its x-trace-id metadata, its answer
  gwOutcome,   \* SpecGw: what the use case did for the request
  gwHops,      \* SpecGw: the trace id each step of the request worked with
  gwResp,      \* SpecGw: the response the caller of the request received
  gwAlive,     \* SpecGw: per service, whether its process is running
  gwCount,     \* SpecGw: requests accepted so far
  gwUuid,      \* SpecGw: trace ids generated so far
  getOut,      \* SpecGet: the last GetOrder call, with what GetByID and GetOrder returned
  entOrder,    \* SpecEnt: the *domain.Order whose status is changed, with its UpdatedAt
  entNow,      \* SpecEnt: the reading of time.Now()
  conBody,     \* SpecCons, per message: its body, "" while unpublished
  conQueue,    \* SpecCons: the messages ready in queue orders.user-created, head first
  conBuf,      \* SpecCons: the deliveries pushed to the consumer and not yet received by its loop
  conPc,       \* SpecCons: the consumer loop: "recv", "handle", "sleep", "stopped"
  conCur,      \* SpecCons: the delivery the loop is working on, <<>> or <<msg>>
  conLast,     \* SpecCons: the delivery settled last: message, handler failure, settlement
  conRedelivered,\* SpecCons: the messages that were requeued
  conHandled,  \* SpecCons: the messages a handler run accepted
  conAcked,    \* SpecCons: the messages acknowledged
  toPc,        \* SpecTo: CreateOrder's position: "idle", "lookup", "create", "publish", "done"
  toReq,       \* SpecTo: the request: its inbound path and the collaborator that never responds
  toNow,       \* SpecTo: time since the request arrived
  toCtx,       \* SpecTo: the deadline of the request context, 0 for none
  toCall,      \* SpecTo: the deadline of the context of the pending outbound call, 0 for none
  toResult,    \* SpecTo: what CreateOrder returned
  toCount      \* SpecTo: requests accepted so far

orderVars == <<userClient, publisher, pc, input, ctx, order, calls, result, store, events>>

errVars == <<errVal, errOut, errTrail>>

valVars == <<valIn, valOut>>

usrVars == <<usrPc, usrIn, usrUser, usrResult, usrStore, usrSeq, usrEvents, usrPublisher, usrCalls>>

gwVars == <<gwPc, gwReq, gwWire, gwOutcome, gwHops, gwResp, gwAlive, gwCount, gwUuid>>

getVars == <<getOut>>

entVars == <<entOrder, entNow>>

conVars == <<conBody, conQueue, conBuf, conPc, conCur, conLast, conRedelivered, conHandled, conAcked>>

toVars == <<toPc, toReq, toNow, toCtx, toCall, toResult, toCount>>

vars == <<orderVars, errVars, valVars, usrVars, gwVars, getVars, entVars, conVars, toVars>>

\* The variables of the other specifications.
notOrderVars == <<errVars, valVars, usrVars, gwVars, getVars, entVars, conVars, toVars>>
notErrVars == <<orderVars, valVars, usrVars, gwVars, getVars, entVars, conVars, toVars>>
notValVars == <<orderVars, errVars, usrVars, gwVars, getVars, entVars, conVars, toVars>>
notUsrVars == <<orderVars, errVars, valVars, gwVars, getVars, entVars, conVars, toVars>>
notGwVars == <<orderVars, errVars, valVars, usrVars, getVars, entVars, conVars, toVars>>
notGetVars == <<orderVars, errVars, valVars, usrVars, gwVars, entVars, conVars, toVars>>
notEntVars == <<orderVars, errVars, valVars, usrVars, gwVars, getVars, conVars, toVars>>
notConVars == <<orderVars, errVars, valVars, usrVars, gwVars, getVars, entVars, toVars>>
notToVars == <<orderVars, errVars, valVars, usrVars, gwVars, getVars, entVars, conVars>>

NoInput == [UserID |-> 0, Total |-> F(0)]
NoResult == [kind |-> "none", order |-> <<>>, err |-> <<>>]

OkResult(o) == [kind |-> "ok", order |-> <<o>>, err |-> <<>>]
ErrResult(e) == [kind |-> "err", order |-> <<>>, err |-> <<e>>]
\* A runtime panic leaves CreateOrder without a return value.
PanicResult == [kind |-> "panic", order |-> <<>>, err |-> <<>>]

Call(op, out) == [op |-> op, out |-> out]

OrderInit ==
  /\ userClient \in Wirings
  /\ publisher \in Wirings
  /\ pc = [p \in Procs |-> "idle"]
  /\ input = [p \in Procs |-> NoInput]
  /\ ctx = [p \in Procs |-> "live"]
  /\ order = [p \in Procs |-> <<>>]
  /\ calls = [p \in Procs |-> <<>>]
  /\ result = [p \in Procs |-> NoResult]
  /\ store = <<>>
  /\ events = <<>>

NoOut == [fn |-> "", arg |-> <<>>, status |-> 0, body |-> <<>>]

ErrIdle ==
  /\ errVal = <<>>
  /\ errOut = NoOut
  /\ errTrail = <<>>

NoUser == [Name |-> <<>>, Email |-> <<>>]

ValIdle ==
  /\ valIn = [order |-> [ID |-> 0, UserID |-> 0, Total |-> F(0), Status |-> ""], user |-> NoUser]
  /\ valOut = [fn |-> "", err |-> <<>>]

\* Bound on the number of CreateUser calls in flight.
MaxUsrCalls == 2

UsrProcs == 1 .. MaxUsrCalls

UsrIdle ==
  /\ usrPc = [p \in UsrProcs |-> "idle"]
  /\ usrIn = [p \in UsrProcs |-> NoUser]
  /\ usrUser = [p \in UsrProcs |-> <<>>]
  /\ usrResult = [p \in UsrProcs |-> NoResult]
  /\ usrStore = {}
  /\ usrSeq = 0
  /\ usrEvents = <<>>
  /\ usrPublisher = "ok"
  /\ usrCalls = [p \in UsrProcs |-> <<>>]

Services == {"orders", "users"}

NoReq == [entry |-> "", svc |-> "", header |-> "", trace |-> ""]
NoWire == [md |-> "", err |-> <<>>]
NoOutcome == [kind |-> "none", err |-> <<>>]
\* "-" marks a step the request did not reach.
NoHops == [http |-> "-", rpc |-> "-", lookup |-> "-", event |-> "-", eventHeader |-> "-"]
NoResp == [transport |-> "", status |-> 0, header |-> "", body |-> <<>>, err |-> <<>>]

GwIdle ==
  /\ gwPc = "idle"
  /\ gwReq = NoReq
  /\ gwWire = NoWire
  /\ gwOutcome = NoOutcome
  /\ gwHops = NoHops
  /\ gwResp = NoResp
  /\ gwAlive = [s \in Services |-> TRUE]
  /\ gwCount = 0
  /\ gwUuid = 0

\* No GetOrder call was made yet. A call is recorded with its id, the number
\* of rows committed when it ran, the failure of its query ("" is none), and
\* the returns of GetByID and GetOrder.
NoGet == [id |-> 0, at |-> 0, db |-> "", repo |-> [order |-> <<>>, err |-> <<>>], order |-> <<>>, err |-> <<>>]

GetIdle == getOut = NoGet

NoOrder == [ID |-> 0, UserID |-> 0, Total |-> F(0), Status |-> "", UpdatedAt |-> 0]

EntIdle ==
  /\ entOrder = NoOrder
  /\ entNow = 0

\* Bound on the messages published to the users exchange.
MaxMsgs == 3

Msgs == 1 .. MaxMsgs

NoDelivery == [msg |-> 0, err |-> FALSE, op |-> ""]

\* Nothing was published and the consumer loop waits in its select.
ConIdle ==
  /\ conBody = [m \in Msgs |-> ""]
  /\ conQueue = <<>>
  /\ conBuf = <<>>
  /\ conPc = "recv"
  /\ conCur = <<>>
  /\ conLast = NoDelivery
  /\ conRedelivered = {}
  /\ conHandled = {}
  /\ conAcked = {}

NoToReq == [entry |-> "", hang |-> ""]

\* No request is being handled.
ToIdle ==
  /\ toPc = "idle"
  /\ toReq = NoToReq
  /\ toNow = 0
  /\ toCtx = 0
  /\ toCall = 0
  /\ toResult = NoResult
  /\ toCount = 0

Init == OrderInit /\ ErrIdle /\ ValIdle /\ UsrIdle /\ GwIdle /\ GetIdle /\ EntIdle /\ ConIdle /\ ToIdle

(***************************************************************************)
(* internal/orders/application: OrderUseCase.CreateOrder                   *)
(***************************************************************************)

\* usecase.go lines 61-65 and the step that follows: construct the entity;
\* a validation error is returned unchanged, otherwise the handler goes on
\* to repo.Create.
Construct(p, in) ==
  LET r == NewOrder(in.UserID, in.Total) IN
  IF r.err /= <<>>
  THEN /\ pc' = [pc EXCEPT ![p] = "done"]
       /\ result' = [result EXCEPT ![p] = ErrResult(r.err[1])]
       /\ order' = order
  ELSE /\ pc' = [pc EXCEPT ![p] = "create"]
       /\ order' = [order EXCEPT ![p] = r.order]
       /\ result' = result

\* A request arrives and CreateOrder runs up to its first collaborator call.
CreateOrder(p) ==
  /\ pc[p] = "idle"
  /\ \E in \in Inputs :
       /\ input' = [input EXCEPT ![p] = in]
       /\ IF userClient /= "nil"
          THEN /\ pc' = [pc EXCEPT ![p] = "lookup"]
               /\ UNCHANGED <<order, result>>
          ELSE Construct(p, in)
  /\ UNCHANGED <<userClient, publisher, ctx, calls, store, events, notOrderVars>>

\* The status the lookup RPC ends with, as the client interceptor's invoker
\* returns it: a finished context ends the call at once; otherwise the users
\* service answers for the id, or the call fails.
LookupStatuses(p) ==
  IF ctx[p] = "done" THEN {GCanceled, GDeadlineExceeded}
  ELSE {IF input[p].UserID \in RemoteUsers THEN GOK ELSE GNotFound} \cup LookupFailCodes

LookupMessage(code, uid) ==
  CASE code = GNotFound -> GRPCStatus(NewNotFound("user", uid)).Message
    [] code = GCanceled -> "context canceled"
    [] code = GDeadlineExceeded -> "context deadline exceeded"
    [] code = GUnavailable -> "connection refused"
    [] OTHER -> "rpc failed"

UnaryClientInterceptorMut(code, message) == <<>>

\* UnaryClientInterceptor: a failed invocation is converted to an AppError.
UnaryClientInterceptor(code, message) ==
  IF code /= GOK THEN <<FromGRPCStatus(StatusError(code, message))>> ELSE <<>>

\* GRPCUserClient.GetUser: the error of the intercepted RPC, unchanged.
GRPCUserClientGetUser(code, uid) == UnaryClientInterceptor(code, LookupMessage(code, uid))

\* usecase.go lines 53-58: the error CreateOrder returns for a failed lookup.
LookupErrorMut(err, userID) ==
  IF Is(err, CodeNotFound) THEN NewNotFound("user", userID)
  ELSE Wrap(err, "failed to validate user")

LookupError(err, userID) ==
  IF Is(err, CodeNotFound) THEN NewUserNotFoundError(userID)
  ELSE Wrap(err, "failed to validate user")

\* The lookup returns and CreateOrder runs up to repo.Create.
GetUser(p) ==
  /\ pc[p] = "lookup"
  /\ IF userClient = "typednil"
     THEN \* method call on a nil *GRPCUserClient: nil pointer dereference
          /\ calls' = calls
          /\ pc' = [pc EXCEPT ![p] = "done"]
          /\ result' = [result EXCEPT ![p] = PanicResult]
          /\ order' = order
     ELSE \E code \in LookupStatuses(p) :
            LET err == GRPCUserClientGetUser(code, input[p].UserID) IN
            /\ calls' = [calls EXCEPT ![p] = Append(@, Call("GetUser", code))]
            /\ IF err /= <<>>
               THEN /\ pc' = [pc EXCEPT ![p] = "done"]
                    /\ result' = [result EXCEPT ![p] =
                                    ErrResult(LookupError(err[1], input[p].UserID))]
                    /\ order' = order
               ELSE Construct(p, input[p])
  /\ UNCHANGED <<userClient, publisher, input, ctx, store, events, notOrderVars>>

\* toModel / toDomain copy the fields one to one.
toModel(o) == [ID |-> o.ID, UserID |-> o.UserID, Total |-> o.Total, Status |-> o.Status]

toDomain(m) == [ID |-> m.ID, UserID |-> m.UserID, Total |-> m.Total, Status |-> m.Status]

CreateOutcomesMut(p) == {"", "connection refused"}

\* What the INSERT of PostgresOrderRepository.Create can end with: a finished
\* context fails the statement; otherwise it commits or the storage fails.
CreateOutcomes(p) ==
  IF ctx[p] = "done" THEN {"context canceled"} ELSE {"", "connection refused"}

\* usecase.go lines 67-70: the error CreateOrder returns for a failed Create.
CreateErrorMut(dbErr) == dbErr

CreateError(dbErr) == NewInternal("failed to create order", <<dbErr>>)

AfterCreateMut(p, o) ==
  IF \A i \in DOMAIN calls[p] : calls[p][i].op /= "Create"
  THEN /\ pc' = [pc EXCEPT ![p] = "create"]
       /\ result' = result
  ELSE IF publisher /= "nil"
  THEN /\ pc' = [pc EXCEPT ![p] = "publish"]
       /\ result' = result
  ELSE /\ pc' = [pc EXCEPT ![p] = "done"]
       /\ result' = [result EXCEPT ![p] = OkResult(o)]

\* usecase.go lines 72-73 and 88: after Create, publish if a publisher is
\* set, otherwise return the order.
AfterCreate(p, o) ==
  IF publisher /= "nil"
  THEN /\ pc' = [pc EXCEPT ![p] = "publish"]
       /\ result' = result
  ELSE /\ pc' = [pc EXCEPT ![p] = "done"]
       /\ result' = [result EXCEPT ![p] = OkResult(o)]

NextIDMut(rows) == 1

\* The primary key the orders table assigns to the next row.
NextID(rows) == Len(rows) + 1

\* PostgresOrderRepository.Create returns and CreateOrder runs up to the
\* publish call. The row gets the next primary key, which is written back to
\* the entity.
RepoCreate(p) ==
  /\ pc[p] = "create"
  /\ \E dbErr \in CreateOutcomes(p) :
       IF dbErr /= ""
       THEN /\ calls' = [calls EXCEPT ![p] = Append(@, Call("Create", dbErr))]
            /\ pc' = [pc EXCEPT ![p] = "done"]
            /\ result' = [result EXCEPT ![p] = ErrResult(CreateError(PlainError(dbErr)))]
            /\ UNCHANGED <<order, store>>
       ELSE LET model == [toModel(order[p][1]) EXCEPT !.ID = NextID(store)]
                o == [order[p][1] EXCEPT !.ID = model.ID]
            IN /\ calls' = [calls EXCEPT ![p] = Append(@, Call("Create", "OK"))]
               /\ store' = Append(store, model)
               /\ order' = [order EXCEPT ![p] = <<o>>]
               /\ AfterCreate(p, o)
  /\ UNCHANGED <<userClient, publisher, input, ctx, events, notOrderVars>>

NewOrderCreatedEventMut(id, userID, total, status) ==
  [version |-> "1.0", event_type |-> "order.created",
   payload |-> [id |-> userID, user_id |-> id, total |-> total, status |-> status]]

\* pkg/events: the order.created envelope, with the routing key it is
\* published under.
NewOrderCreatedEvent(id, userID, total, status) ==
  [version |-> "1.0", event_type |-> "order.created",
   payload |-> [id |-> id, user_id |-> userID, total |-> total, status |-> status]]

\* usecase.go lines 73-88: what CreateOrder returns after the publish call.
PublishResultMut(o, pubErr) ==
  IF pubErr /= "" THEN ErrResult(NewInternal("failed to publish", <<PlainError(pubErr)>>))
  ELSE OkResult(o)

PublishResult(o, pubErr) == OkResult(o)

\* The errors Publisher.Publish can return for the event of order o ("" is
\* nil): json.Marshal rejects a NaN total, otherwise the broker accepts the
\* message or not.
PublishErrors(o) ==
  IF o.Total.nan THEN {"failed to marshal message"} ELSE {"", "failed to publish message"}

\* RabbitMQPublisher.PublishOrderCreated returns and CreateOrder returns.
PublishOrderCreated(p) ==
  /\ pc[p] = "publish"
  /\ pc' = [pc EXCEPT ![p] = "done"]
  /\ IF publisher = "typednil"
     THEN \* field access through a nil *RabbitMQPublisher: nil pointer dereference
          /\ result' = [result EXCEPT ![p] = PanicResult]
          /\ UNCHANGED <<calls, events>>
     ELSE \E pubErr \in PublishErrors(order[p][1]) :
            LET o == order[p][1] IN
            /\ calls' = [calls EXCEPT ![p] =
                           Append(@, Call("PublishOrderCreated",
                                          IF pubErr = "" THEN "OK" ELSE pubErr))]
            /\ events' = IF pubErr = ""
                         THEN Append(events,
                                     NewOrderCreatedEvent(o.ID, o.UserID, o.Total, o.Status))
                         ELSE events
            /\ result' = [result EXCEPT ![p] = PublishResult(o, pubErr)]
  /\ UNCHANGED <<userClient, publisher, input, ctx, order, store, notOrderVars>>

\* The inbound request is cancelled or its deadline passes while CreateOrder
\* is waiting on a collaborator.
CtxDone(p) ==
  /\ pc[p] \in {"lookup", "create", "publish"}
  /\ ctx[p] = "live"
  /\ ctx' = [ctx EXCEPT ![p] = "done"]
  /\ calls' = [calls EXCEPT ![p] = Append(@, Call("ctx.Done", ""))]
  /\ UNCHANGED <<userClient, publisher, pc, input, order, result, store, events, notOrderVars>>

Next ==
  \E p \in Procs :
    \/ CreateOrder(p)
    \/ GetUser(p)
    \/ RepoCreate(p)
    \/ PublishOrderCreated(p)
    \/ CtxDone(p)

Spec == Init /\ [][Next]_vars

TypeOK ==
  /\ userClient \in Wirings
  /\ publisher \in Wirings
  /\ \A p \in Procs : pc[p] \in {"idle", "lookup", "create", "publish", "done"}
  /\ \A p \in Procs : result[p].kind \in {"none", "ok", "err", "panic"}
  /\ \A p \in Procs : (pc[p] = "done") = (result[p].kind /= "none")

(***************************************************************************)
(* SpecErr: the pkg/errors functions applied to bounded error values       *)
(***************************************************************************)

\* Number of conversions applied to an error value under test, hence also
\* the longest Unwrap chain it grows.
MaxWrap == 3

\* Every codes.Code name of the model.
GCodes ==
  {GOK, GCanceled, GUnknown, GInvalidArgument, GDeadlineExceeded, GNotFound, GAlreadyExists,
   GPermissionDenied, GInternal, GUnavailable, GUnauthenticated}

ErrMessages == {"user not found", "pq: relation does not exist"}

ErrDetails == {NoDetails, << <<"user_id", 999>> >>}

TraceIDs == {"", "t-1"}

\* The error values the functions are applied to: an AppError of each kind
\* and of a code outside the taxonomy, errors of other types, and gRPC status
\* errors of every code but OK.
BaseErrors ==
  {AppError(c, m, d, NoErr) : c \in Codes \cup {"TEAPOT"}, m \in ErrMessages, d \in ErrDetails}
  \cup {PlainError(m) : m \in ErrMessages}
  \cup {StatusError(g, m) : g \in GCodes \ {GOK}, m \in ErrMessages}

\* Length of the Unwrap chain.
RECURSIVE Depth(_)
Depth(e) == IF e.Err = NoErr THEN 0 ELSE 1 + Depth(e.Err[1])

\* The order use case at rest, fully wired.
OrderIdle ==
  /\ userClient = "ok"
  /\ publisher = "ok"
  /\ pc = [p \in Procs |-> "idle"]
  /\ input = [p \in Procs |-> NoInput]
  /\ ctx = [p \in Procs |-> "live"]
  /\ order = [p \in Procs |-> <<>>]
  /\ calls = [p \in Procs |-> <<>>]
  /\ result = [p \in Procs |-> NoResult]
  /\ store = <<>>
  /\ events = <<>>

InitErr ==
  /\ OrderIdle
  /\ ToIdle
  /\ ConIdle
  /\ EntIdle
  /\ GetIdle
  /\ GwIdle
  /\ ValIdle
  /\ UsrIdle
  /\ errVal \in {<<e>> : e \in BaseErrors}
  /\ errOut = NoOut
  /\ errTrail = <<>>

\* One conversion of the error value: the function, its argument, its result.
Conv(fn, arg, res) == [fn |-> fn, arg |-> arg, res |-> res]

ErrApply(fn, res) ==
  /\ errVal' = <<res>>
  /\ errTrail' = Append(errTrail, Conv(fn, errVal[1], res))
  /\ errOut' = NoOut
  /\ UNCHANGED notErrVars

ErrWrap ==
  /\ Len(errTrail) < MaxWrap
  /\ ErrApply("Wrap", Wrap(errVal[1], "failed to validate user"))

ErrErrorf ==
  /\ Len(errTrail) < MaxWrap
  /\ ErrApply("Errorf", Errorf("failed to publish message", errVal[1]))

\* The server side of an RPC: the handler's error leaves as a status.
ErrGRPCStatus ==
  /\ Len(errTrail) < MaxWrap
  /\ ErrApply("GRPCStatus", GRPCStatus(errVal[1]))

\* The client side of an RPC, and the gateway handler after it.
ErrFromGRPCStatus ==
  /\ Len(errTrail) < MaxWrap
  /\ ErrApply("FromGRPCStatus", FromGRPCStatus(errVal[1]))

ErrHTTPStatus ==
  /\ errOut' = [fn |-> "HTTPStatus", arg |-> errVal, status |-> HTTPStatus(errVal[1]),
                body |-> <<>>]
  /\ UNCHANGED <<notErrVars, errVal, errTrail>>

ErrToJSON ==
  /\ \E t \in TraceIDs :
       LET r == ToJSON(errVal[1], t) IN
       errOut' = [fn |-> "ToJSON", arg |-> errVal, status |-> r.status, body |-> <<r.body>>]
  /\ UNCHANGED <<notErrVars, errVal, errTrail>>

NextErr ==
  \/ ErrWrap
  \/ ErrErrorf
  \/ ErrGRPCStatus
  \/ ErrFromGRPCStatus
  \/ ErrHTTPStatus
  \/ ErrToJSON

SpecErr == InitErr /\ [][NextErr]_vars

(***************************************************************************)
(* internal/users/domain                                                   *)
(***************************************************************************)

\* A Go string is the sequence of its bytes, one-character strings here.
ErrNameRequired == NewValidation("name is required", NoDetails)
ErrNameLength == NewValidation("name must be between 2 and 100 characters", NoDetails)
ErrEmailRequired == NewValidation("email is required", NoDetails)
ErrEmailInvalid == NewValidation("email format is invalid", NoDetails)
ErrEmailExists == NewConflict("email already exists")

MinNameLen == 2
MaxNameLen == 100

LowerCase ==
  {"a", "b", "c", "d", "e", "f", "g", "h", "i", "j", "k", "l", "m",
   "n", "o", "p", "q", "r", "s", "t", "u", "v", "w", "x", "y", "z"}
UpperCase ==
  {"A", "B", "C", "D", "E", "F", "G", "H", "I", "J", "K", "L", "M",
   "N", "O", "P", "Q", "R", "S", "T", "U", "V", "W", "X", "Y", "Z"}
Digits == {"0", "1", "2", "3", "4", "5", "6", "7", "8", "9"}

\* The three character classes of EmailRegex.
LocalChars == LowerCase \cup UpperCase \cup Digits \cup {".", "_", "%", "+", "-"}
DomainChars == LowerCase \cup UpperCase \cup Digits \cup {".", "-"}
TLDChars == LowerCase \cup UpperCase

AllIn(s, from, to, class) == \A k \in from .. to : s[k] \in class

\* EmailRegex.MatchString(s) for ^[a-zA-Z0-9._%+-]+@[a-zA-Z0-9.-]+\.[a-zA-Z]{2,}$ :
\* some "@" at i and some "." at j split s into a non-empty local part, a
\* non-empty domain part and a final label of two or more letters.
EmailRegexMatchString(s) ==
  \E i \in 1 .. Len(s), j \in 1 .. Len(s) :
    /\ s[i] = "@"
    /\ i > 1
    /\ AllIn(s, 1, i - 1, LocalChars)
    /\ s[j] = "."
    /\ j > i + 1
    /\ AllIn(s, i + 1, j - 1, DomainChars)
    /\ Len(s) - j >= 2
    /\ AllIn(s, j + 1, Len(s), TLDChars)

UserValidateMut(u) ==
  IF u.Name = <<>> THEN <<ErrNameRequired>>
  ELSE IF u.Email = <<>> THEN <<ErrEmailRequired>>
  ELSE IF Len(u.Name) < MinNameLen \/ Len(u.Name) > MaxNameLen THEN <<ErrNameLength>>
  ELSE IF ~EmailRegexMatchString(u.Email) THEN <<ErrEmailInvalid>>
  ELSE <<>>

\* User.Validate: <<>> (nil) or <<err>>.
UserValidate(u) ==
  IF u.Name = <<>> THEN <<ErrNameRequired>>
  ELSE IF Len(u.Name) < MinNameLen \/ Len(u.Name) > MaxNameLen THEN <<ErrNameLength>>
  ELSE IF u.Email = <<>> THEN <<ErrEmailRequired>>
  ELSE IF ~EmailRegexMatchString(u.Email) THEN <<ErrEmailInvalid>>
  ELSE <<>>

(***************************************************************************)
(* SpecVal: the entity validators applied to bounded entities              *)
(***************************************************************************)

\* A string of n bytes.
Rep(n) == [k \in 1 .. n |-> "a"]

ValNames == {Rep(0), Rep(1), Rep(MinNameLen), Rep(MaxNameLen), Rep(MaxNameLen + 1), <<" ", " ">>}

\* Emails that match the pattern.
ValEmailsGood ==
  { <<"j", "@", "e", ".", "c", "o">>,
    <<"j", "@", "e", ".", "c", "o", ".", "u", "k">>,
    <<"j", "@", "e", ".", ".", "c", "o">>,
    <<"J", "_", "%", "+", "-", ".", "9", "@", "x", "-", "1", ".", "Z", "z">> }

\* Emails that do not: the empty one, no "@", no dot after the "@", a final
\* label of one letter or with a digit, an empty local or domain part, a
\* space, two "@", a trailing newline.
ValEmailsBad ==
  { <<>>,
    <<"i", "n", "v", "a", "l", "i", "d", "-", "e", "m", "a", "i", "l">>,
    <<"j", "@", "e">>,
    <<"j", "@", "e", ".", "c">>,
    <<"j", "@", "e", ".", "c", "0">>,
    <<"@", "e", ".", "c", "o">>,
    <<"j", "@", ".", "c", "o">>,
    <<"j", " ", "@", "e", ".", "c", "o">>,
    <<"j", "@", "@", "e", ".", "c", "o">>,
    <<"j", "@", "e", ".", "c", "o", "\n">> }

ValUsers == {[Name |-> n, Email |-> e] : n \in ValNames, e \in ValEmailsGood \cup ValEmailsBad}

ValTotals == {F(0 - 1), F(0), F(1), F(MaxTotal), F(MaxTotal + 1), NaN}

ValOrders ==
  {[ID |-> 0, UserID |-> uid, Total |-> t, Status |-> OrderStatusPending] :
     uid \in {0, 1}, t \in ValTotals}

InitVal ==
  /\ OrderIdle
  /\ ToIdle
  /\ ConIdle
  /\ EntIdle
  /\ GetIdle
  /\ GwIdle
  /\ ErrIdle
  /\ UsrIdle
  /\ valIn \in [order : ValOrders, user : ValUsers]
  /\ valOut = [fn |-> "", err |-> <<>>]

ValOrderValidate ==
  /\ valOut' = [fn |-> "Order.Validate", err |-> Validate(valIn.order)]
  /\ UNCHANGED <<notValVars, valIn>>

ValUserValidate ==
  /\ valOut' = [fn |-> "User.Validate", err |-> UserValidate(valIn.user)]
  /\ UNCHANGED <<notValVars, valIn>>

NextVal ==
  \/ ValOrderValidate
  \/ ValUserValidate

SpecVal == InitVal /\ [][NextVal]_vars

(***************************************************************************)
(* SpecUsr: internal/users/application, UserUseCase.CreateUser             *)
(***************************************************************************)

UsrNames == {Rep(1), Rep(MinNameLen), <<"J", "o">>}

UsrEmails ==
  { <<"j", "@", "e", ".", "c", "o">>,
    <<"k", "@", "e", ".", "c", "o">>,
    <<"j", "@", "e">> }

\* domain.NewUser: (user, err); ID is zero until the store assigns one.
NewUser(name, email) ==
  LET user == [ID |-> 0, Name |-> name, Email |-> email]
  IN IF UserValidate(user) /= <<>>
     THEN [user |-> <<>>, err |-> UserValidate(user)]
     ELSE [user |-> <<user>>, err |-> <<>>]

UsrCall(p, op, out) == usrCalls' = [usrCalls EXCEPT ![p] = Append(@, Call(op, out))]

UsrReturn(p, res) ==
  /\ usrPc' = [usrPc EXCEPT ![p] = "done"]
  /\ usrResult' = [usrResult EXCEPT ![p] = res]

UsrGoto(p, step) ==
  /\ usrPc' = [usrPc EXCEPT ![p] = step]
  /\ usrResult' = usrResult

CreateUserMut(p, in) ==
  /\ UsrGoto(p, "check")
  /\ usrUser' = [usrUser EXCEPT ![p] = <<[ID |-> 0, Name |-> in.Name, Email |-> in.Email]>>]

\* part_003 lines 42-47: NewUser validates the input; its error is returned
\* unchanged, before the repository is touched.
CreateUser(p, in) ==
  LET r == NewUser(in.Name, in.Email) IN
  IF r.err /= <<>>
  THEN /\ UsrReturn(p, ErrResult(r.err[1]))
       /\ usrUser' = usrUser
  ELSE /\ UsrGoto(p, "check")
       /\ usrUser' = [usrUser EXCEPT ![p] = r.user]

\* A request arrives and CreateUser runs up to its first repository call.
UsrCreateUser(p) ==
  /\ usrPc[p] = "idle"
  /\ \E name \in UsrNames, email \in UsrEmails :
       LET in == [Name |-> name, Email |-> email] IN
       /\ usrIn' = [usrIn EXCEPT ![p] = in]
       /\ CreateUser(p, in)
  /\ UNCHANGED <<usrPublisher, usrCalls, usrStore, usrSeq, usrEvents, notUsrVars>>

\* PostgresUserRepository.GetByEmail: (user, err); dbErr is the error of the
\* query other than "record not found" ("" is none).
GetByEmail(email, dbErr) ==
  IF dbErr /= ""
  THEN [user |-> <<>>, err |-> <<NewInternal("failed to get user by email", <<PlainError(dbErr)>>)>>]
  ELSE IF \E row \in usrStore : row.Email = email
  THEN [user |-> <<CHOOSE row \in usrStore : row.Email = email>>, err |-> <<>>]
  ELSE [user |-> <<>>, err |-> <<AppError(CodeNotFound, "user not found", NoDetails, NoErr)>>]

\* What a statement on the users table can fail with besides its own
\* outcome ("" is no failure).
UsrDbErrors == {"", "connection refused"}

\* part_003 lines 49-56: the email check.
UsrGetByEmail(p) ==
  /\ usrPc[p] = "check"
  /\ \E dbErr \in UsrDbErrors :
       LET r == GetByEmail(usrUser[p][1].Email, dbErr) IN
       IF r.err /= <<>> /\ ~Is(r.err[1], CodeNotFound)
       THEN /\ UsrCall(p, "GetByEmail", dbErr)
            /\ UsrReturn(p, ErrResult(NewInternal("failed to check email existence", r.err)))
       ELSE IF r.user /= <<>>
       THEN /\ UsrCall(p, "GetByEmail", "found")
            /\ UsrReturn(p, ErrResult(ErrEmailExists))
       ELSE /\ UsrCall(p, "GetByEmail", "none")
            /\ UsrGoto(p, "create")
  /\ UNCHANGED <<usrPublisher, usrIn, usrUser, usrStore, usrSeq, usrEvents, notUsrVars>>

\* part_003 lines 59-61: the error CreateUser returns when Create failed.
UsrCreateError(dbErr) == NewInternal("failed to create user", <<dbErr>>)

UsrOk(u) == [kind |-> "ok", order |-> <<u>>, err |-> <<>>]

\* part_003 lines 63-78 after Create: publish if a publisher is set,
\* otherwise return the user.
UsrAfterCreate(p, u) ==
  IF usrPublisher /= "nil" THEN UsrGoto(p, "publish") ELSE UsrReturn(p, UsrOk(u))

\* PostgresUserRepository.Create and what follows it in CreateUser: the
\* insert draws an id from the sequence and fails on the unique index of
\* the email column when a row with that email exists.
UsrRepoCreate(p) ==
  /\ usrPc[p] = "create"
  /\ \E dbErr \in UsrDbErrors :
       LET u == usrUser[p][1] IN
       IF dbErr /= ""
       THEN /\ UsrCall(p, "Create", dbErr)
            /\ UsrReturn(p, ErrResult(UsrCreateError(PlainError(dbErr))))
            /\ UNCHANGED <<usrUser, usrStore, usrSeq>>
       ELSE IF \E row \in usrStore : row.Email = u.Email
       THEN /\ UsrCall(p, "Create", "duplicate key")
            /\ usrSeq' = usrSeq + 1
            /\ UsrReturn(p, ErrResult(UsrCreateError(
                 PlainError("duplicate key value violates unique constraint"))))
            /\ UNCHANGED <<usrUser, usrStore>>
       ELSE LET created == [u EXCEPT !.ID = usrSeq + 1] IN
            /\ UsrCall(p, "Create", "OK")
            /\ usrSeq' = usrSeq + 1
            /\ usrStore' = usrStore \cup {created}
            /\ usrUser' = [usrUser EXCEPT ![p] = <<created>>]
            /\ UsrAfterCreate(p, created)
  /\ UNCHANGED <<usrPublisher, usrIn, usrEvents, notUsrVars>>

\* events.NewUserCreatedEvent (timestamp and trace id left out).
NewUserCreatedEvent(id, name, email) ==
  [version |-> "1.0", event_type |-> "user.created",
   payload |-> [id |-> id, name |-> name, email |-> email]]

\* part_003 lines 63-78: the publish call, whose error is only logged, and
\* the return.
UsrPublishUserCreated(p) ==
  /\ usrPc[p] = "publish"
  /\ LET u == usrUser[p][1] IN
     IF usrPublisher = "typednil"
     THEN \* field access through a nil *RabbitMQPublisher: nil pointer dereference
          /\ UsrReturn(p, PanicResult)
          /\ UNCHANGED <<usrCalls, usrEvents>>
     ELSE \E pubErr \in {"", "failed to publish message"} :
            /\ UsrCall(p, "PublishUserCreated", IF pubErr = "" THEN "OK" ELSE pubErr)
            /\ usrEvents' = IF pubErr = ""
                            THEN Append(usrEvents, NewUserCreatedEvent(u.ID, u.Name, u.Email))
                            ELSE usrEvents
            /\ UsrReturn(p, UsrOk(u))
  /\ UNCHANGED <<usrPublisher, usrIn, usrUser, usrStore, usrSeq, notUsrVars>>

\* The use case as NewUserUseCase returns it: the publisher is the nil
\* interface, main's unassigned pointer variable, or an adapter.
InitUsr ==
  /\ OrderIdle
  /\ ToIdle
  /\ ConIdle
  /\ EntIdle
  /\ GetIdle
  /\ GwIdle
  /\ ErrIdle
  /\ ValIdle
  /\ usrPublisher \in Wirings
  /\ usrPc = [p \in UsrProcs |-> "idle"]
  /\ usrIn = [p \in UsrProcs |-> NoUser]
  /\ usrUser = [p \in UsrProcs |-> <<>>]
  /\ usrCalls = [p \in UsrProcs |-> <<>>]
  /\ usrResult = [p \in UsrProcs |-> NoResult]
  /\ usrStore = {}
  /\ usrSeq = 0
  /\ usrEvents = <<>>

NextUsr ==
  \E p \in UsrProcs :
    \/ UsrCreateUser(p)
    \/ UsrGetByEmail(p)
    \/ UsrRepoCreate(p)
    \/ UsrPublishUserCreated(p)

SpecUsr == InitUsr /\ [][NextUsr]_vars

(***************************************************************************)
(* SpecGw: a request through the transports: pkg/middleware, pkg/grpc,     *)
(* internal/gateway/handlers                                               *)
(***************************************************************************)

\* Bound on the number of requests.
MaxReqs == 2

\* uuid.New().String(): the n-th identifier a process generates.
Uuid(n) == "u-" \o ToString(n)

\* middleware.TraceID: the trace id of a request with X-Trace-ID header.
TraceID(header, fresh) == IF header = "" THEN fresh ELSE header

OutgoingTraceIDMut(ctxTrace) == ""

\* UnaryClientInterceptor lines 81-85: the x-trace-id metadata put on the
\* outgoing call, "" for none.
OutgoingTraceID(ctxTrace) == IF ctxTrace /= "" THEN ctxTrace ELSE ""

\* extractTraceID: the first x-trace-id value of the incoming metadata.
extractTraceID(md) == md

\* UnaryServerInterceptor lines 32-37: the trace id put in the handler's
\* context.
ServerTraceID(md, fresh) == IF extractTraceID(md) = "" THEN fresh ELSE extractTraceID(md)

HTTPResponse(status, header, body) ==
  [transport |-> "http", status |-> status, header |-> header, body |-> <<body>>,
   err |-> <<>>]

RecoveredMut(traceID) ==
  HTTPResponse(StatusInternalServerError, traceID,
               [error |-> [code |-> CodeInternal, message |-> "An internal error occurred",
                           details |-> NoDetails],
                trace_id |-> ""])

\* ErrorHandler lines 26-44: the response to a recovered panic.
Recovered(traceID) ==
  HTTPResponse(StatusInternalServerError, traceID,
               [error |-> [code |-> CodeInternal, message |-> "An internal error occurred",
                           details |-> NoDetails],
                trace_id |-> traceID])

\* ErrorHandler lines 48-62: the response to an error a handler set.
ErrorHandler(err, traceID) ==
  LET r == ToJSON(err, traceID) IN HTTPResponse(r.status, traceID, r.body)

\* A handler's c.JSON: the X-Trace-ID header was set by middleware.TraceID.
Success(traceID) == HTTPResponse(201, traceID, [data |-> "order", trace_id |-> traceID])

\* Errors the use case of a service returns: of each kind, and one that is
\* no AppError.
UcErrors(svc) ==
  IF svc = "orders"
  THEN {NewUserNotFoundError(2), ErrInvalidTotal, NewOrderNotFound(7),
        NewInternal("failed to create order", <<PlainError("connection refused")>>),
        Wrap(FromGRPCStatus(StatusError(GUnauthenticated, "rpc failed")),
             "failed to validate user"),
        Wrap(FromGRPCStatus(StatusError(GPermissionDenied, "rpc failed")),
             "failed to validate user"),
        Wrap(FromGRPCStatus(StatusError(GAlreadyExists, "rpc failed")),
             "failed to validate user")}
  ELSE {ErrNameRequired, ErrEmailExists, NewNotFound("user", 2),
        NewInternal("failed to create user", <<PlainError("connection refused")>>),
        PlainError("connection refused")}

\* What the use case does for a request: it returns, or it panics (a nil
\* collaborator pointer).
Outcomes(svc) ==
  {[kind |-> "ok", err |-> <<>>], [kind |-> "panic", err |-> <<>>]}
    \cup {[kind |-> "err", err |-> <<e>>] : e \in UcErrors(svc)}

\* The downstream steps of a use case running with trace id t in its
\* context: the orders use case calls the users service, whose interceptor
\* takes the id of the call; a created entity is published with
\* logger.GetTraceID(ctx) as trace_id field and x-trace-id header.
UseCaseHops(hops, svc, o, t, fresh) ==
  [hops EXCEPT
     !.lookup = IF svc = "orders" /\ o.kind /= "panic"
                THEN ServerTraceID(OutgoingTraceID(t), fresh) ELSE "-",
     !.event = IF o.kind = "ok" THEN t ELSE "-",
     !.eventHeader = IF o.kind = "ok" THEN t ELSE "-"]

\* Identifiers generated by a use case's downstream steps.
UseCaseUuids(svc, o, t) ==
  IF svc = "orders" /\ o.kind /= "panic" /\ extractTraceID(OutgoingTraceID(t)) = "" THEN 1 ELSE 0

\* An HTTP request at the gateway: TraceID, then the handler binds the body
\* and calls the service, or reports the bind error.
GatewayRequest ==
  /\ gwPc = "idle"
  /\ gwCount < MaxReqs
  /\ gwCount' = gwCount + 1
  /\ \E h \in TraceIDs, svc \in Services, bound \in BOOLEAN :
       LET t == TraceID(h, Uuid(gwUuid + 1)) IN
       /\ gwReq' = [entry |-> "gateway", svc |-> svc, header |-> h, trace |-> t]
       /\ gwUuid' = IF h = "" THEN gwUuid + 1 ELSE gwUuid
       /\ gwHops' = [NoHops EXCEPT !.http = t]
       /\ gwOutcome' = NoOutcome
       /\ IF bound
          THEN /\ gwPc' = "rpc"
               /\ gwWire' = [md |-> OutgoingTraceID(t), err |-> <<>>]
               /\ gwResp' = NoResp
          ELSE /\ gwPc' = "idle"
               /\ gwWire' = NoWire
               /\ gwResp' = ErrorHandler(
                    NewValidation("invalid request body", << <<"error", "EOF">> >>), t)
  /\ UNCHANGED <<gwAlive, notGwVars>>

\* An HTTP request at a service's own HTTP port: TraceID, ErrorHandler, the
\* handler and the use case run in the service process.
ServiceHTTPRequest ==
  /\ gwPc = "idle"
  /\ gwCount < MaxReqs
  /\ gwCount' = gwCount + 1
  /\ \E h \in TraceIDs, svc \in Services :
       /\ gwAlive[svc]
       /\ \E o \in Outcomes(svc) :
            LET n == IF h = "" THEN gwUuid + 1 ELSE gwUuid
                t == TraceID(h, Uuid(gwUuid + 1))
            IN /\ gwReq' = [entry |-> "http", svc |-> svc, header |-> h, trace |-> t]
               /\ gwUuid' = n + UseCaseUuids(svc, o, t)
               /\ gwHops' = UseCaseHops([NoHops EXCEPT !.http = t], svc, o, t, Uuid(n + 1))
               /\ gwOutcome' = o
               /\ gwResp' = CASE o.kind = "ok" -> Success(t)
                               [] o.kind = "err" -> ErrorHandler(o.err[1], t)
                               [] OTHER -> Recovered(t)
  /\ UNCHANGED <<gwPc, gwWire, gwAlive, notGwVars>>

\* A gRPC client other than the gateway calls a service, with or without
\* x-trace-id metadata.
DirectCall ==
  /\ gwPc = "idle"
  /\ gwCount < MaxReqs
  /\ gwCount' = gwCount + 1
  /\ \E md \in TraceIDs, svc \in Services :
       /\ gwReq' = [entry |-> "grpc", svc |-> svc, header |-> md, trace |-> ""]
       /\ gwWire' = [md |-> md, err |-> <<>>]
  /\ gwPc' = "rpc"
  /\ gwHops' = NoHops
  /\ gwOutcome' = NoOutcome
  /\ gwResp' = NoResp
  /\ UNCHANGED <<gwAlive, gwUuid, notGwVars>>

\* The service end of the RPC: UnaryServerInterceptor around the handler.  A
\* returned error leaves as GRPCStatus(err); the interceptor has no recover,
\* so a panic of the handler ends the process and the caller's connection
\* breaks.  A call to a process that is gone never connects.
ServeRPC ==
  /\ gwPc = "rpc"
  /\ gwPc' = "reply"
  /\ IF ~gwAlive[gwReq.svc]
     THEN /\ gwWire' = [gwWire EXCEPT !.err = <<StatusError(GUnavailable, "connection refused")>>]
          /\ UNCHANGED <<gwOutcome, gwHops, gwAlive, gwUuid>>
     ELSE \E o \in Outcomes(gwReq.svc) :
            LET n == IF extractTraceID(gwWire.md) = "" THEN gwUuid + 1 ELSE gwUuid
                t == ServerTraceID(gwWire.md, Uuid(gwUuid + 1))
            IN /\ gwOutcome' = o
               /\ gwUuid' = n + UseCaseUuids(gwReq.svc, o, t)
               /\ gwHops' = UseCaseHops([gwHops EXCEPT !.rpc = t], gwReq.svc, o, t, Uuid(n + 1))
               /\ gwAlive' = IF o.kind = "panic"
                             THEN [gwAlive EXCEPT ![gwReq.svc] = FALSE] ELSE gwAlive
               /\ gwWire' = [gwWire EXCEPT !.err =
                    CASE o.kind = "ok" -> <<>>
                      [] o.kind = "err" -> <<GRPCStatus(o.err[1])>>
                      [] OTHER -> <<StatusError(GUnavailable, "error reading from server: EOF")>>]
  /\ UNCHANGED <<gwReq, gwResp, gwCount, notGwVars>>

\* The answer reaches the caller.  The gateway's client interceptor converts
\* a status, handlers.go converts the result once more and ErrorHandler
\* writes the response; another client gets the status as it is.
Reply ==
  /\ gwPc = "reply"
  /\ gwPc' = "idle"
  /\ gwWire' = NoWire
  /\ gwResp' =
       IF gwReq.entry = "gateway"
       THEN LET err == IF gwWire.err = <<>> THEN <<>>
                       ELSE UnaryClientInterceptor(gwWire.err[1].Code, gwWire.err[1].Message)
            IN IF err /= <<>>
               THEN ErrorHandler(FromGRPCStatus(err[1]), gwReq.trace)
               ELSE Success(gwReq.trace)
       ELSE [NoResp EXCEPT !.transport = "grpc", !.err = gwWire.err]
  /\ UNCHANGED <<gwReq, gwOutcome, gwHops, gwAlive, gwCount, gwUuid, notGwVars>>

InitGw ==
  /\ OrderIdle
  /\ ToIdle
  /\ ConIdle
  /\ EntIdle
  /\ GetIdle
  /\ ErrIdle
  /\ ValIdle
  /\ UsrIdle
  /\ GwIdle

NextGw ==
  \/ GatewayRequest
  \/ ServiceHTTPRequest
  \/ DirectCall
  \/ ServeRPC
  \/ Reply

SpecGw == InitGw /\ [][NextGw]_vars

(***************************************************************************)
(* SpecGet: OrderUseCase.GetOrder beside CreateOrder                       *)
(***************************************************************************)

\* PostgresOrderRepository.GetByID: (order, err); dbErr is the error of the
\* query other than "record not found" ("" is none).
GetByID(id, dbErr) ==
  IF dbErr /= ""
  THEN [order |-> <<>>, err |-> <<NewInternal("failed to get order", <<PlainError(dbErr)>>)>>]
  ELSE IF id \in DOMAIN store
  THEN [order |-> <<toDomain(store[id])>>, err |-> <<>>]
  ELSE [order |-> <<>>, err |-> <<NewOrderNotFound(id)>>]

GetOrderResultMut(r) ==
  IF r.err /= <<>>
  THEN [order |-> <<>>, err |-> <<NewInternal("failed to get order", r.err)>>]
  ELSE [order |-> r.order, err |-> <<>>]

\* usecase.go lines 101-109: what GetOrder returns for GetByID's return.
GetOrderResult(r) ==
  IF r.err /= <<>> THEN [order |-> <<>>, err |-> r.err] ELSE [order |-> r.order, err |-> <<>>]

\* Number of CreateOrder calls made beside the GetOrder calls.
MaxGetCalls == 1

GetProcs == 1 .. MaxGetCalls

\* Ids a caller may ask for: the unset value, every id the store can have
\* assigned, and one beyond.
GetIDs == 0 .. MaxGetCalls + 1

\* OrderUseCase.GetOrder, whole.
GetOrder ==
  /\ \E id \in GetIDs, dbErr \in {"", "connection refused"} :
       LET r == GetByID(id, dbErr)
           res == GetOrderResult(r)
       IN getOut' = [id |-> id, at |-> Len(store), db |-> dbErr, repo |-> r,
                     order |-> res.order, err |-> res.err]
  /\ UNCHANGED <<orderVars, notGetVars>>

\* The orders service fully wired, at rest.
InitGet ==
  /\ OrderIdle
  /\ ToIdle
  /\ ConIdle
  /\ EntIdle
  /\ ErrIdle
  /\ ValIdle
  /\ UsrIdle
  /\ GwIdle
  /\ getOut = NoGet

NextGet ==
  \/ \E p \in GetProcs :
       \/ CreateOrder(p)
       \/ GetUser(p)
       \/ RepoCreate(p)
       \/ PublishOrderCreated(p)
  \/ GetOrder

SpecGet == InitGet /\ [][NextGet]_vars

(***************************************************************************)
(* SpecEnt: internal/orders/domain, Order.Confirm and Order.Cancel          *)
(***************************************************************************)

\* Latest reading of the clock.
MaxTime == 4

\* entity.go lines 57-61.
Confirm(o, now) == [o EXCEPT !.Status = "confirmed", !.UpdatedAt = now]

\* entity.go lines 63-67.
Cancel(o, now) == [o EXCEPT !.Status = "cancelled", !.UpdatedAt = now]

\* Time passes.
EntTick ==
  /\ entNow < MaxTime
  /\ entNow' = entNow + 1
  /\ UNCHANGED <<entOrder, notEntVars>>

EntConfirm ==
  /\ entOrder' = Confirm(entOrder, entNow)
  /\ UNCHANGED <<entNow, notEntVars>>

EntCancel ==
  /\ entOrder' = Cancel(entOrder, entNow)
  /\ UNCHANGED <<entNow, notEntVars>>

\* An order as NewOrder returns it and Create stores it: pending, with an
\* id, created at time 0.
InitEnt ==
  /\ OrderIdle
  /\ ToIdle
  /\ ConIdle
  /\ ErrIdle
  /\ ValIdle
  /\ UsrIdle
  /\ GwIdle
  /\ GetIdle
  /\ entNow = 0
  /\ \E in \in Inputs, id \in 1 .. 2 :
       /\ NewOrder(in.UserID, in.Total).err = <<>>
       /\ LET o == NewOrder(in.UserID, in.Total).order[1] IN
          entOrder = [ID |-> id, UserID |-> o.UserID, Total |-> o.Total,
                      Status |-> o.Status, UpdatedAt |-> 0]

NextEnt ==
  \/ EntTick
  \/ EntConfirm
  \/ EntCancel

SpecEnt == InitEnt /\ [][NextEnt]_vars

(***************************************************************************)
(* SpecCons: pkg/rabbitmq Consumer.Consume with                            *)
(* UserCreatedConsumer.handleMessage                                       *)
(***************************************************************************)

\* Bodies a publisher can put on the exchange: a marshalled UserCreatedEvent
\* and bytes that json.Unmarshal rejects.
Bodies == {"json", "garbage"}

\* consumer.go lines 44-67: TRUE when handleMessage returns an error.
handleMessage(body) == body /= "json"

SettleMut(failed) == "ack"

\* rabbitmq.go lines 242-252: how Consume settles a delivery.
Settle(failed) == IF failed THEN "nack-requeue" ELSE "ack"

\* The queue with message m back at its original position: messages are
\* numbered in the order they were published.
Requeue(queue, m) ==
  SelectSeq(queue, LAMBDA k : k < m) \o <<m>> \o SelectSeq(queue, LAMBDA k : k > m)

\* The broker's part of a settlement: an acknowledged message is gone, a
\* requeued one returns to its place in the queue, flagged redelivered.
Settled(m, failed) ==
  LET op == Settle(failed) IN
  /\ conLast' = [msg |-> m, err |-> failed, op |-> op]
  /\ conCur' = <<>>
  /\ conPc' = "recv"
  /\ IF op = "ack"
     THEN /\ conAcked' = conAcked \cup {m}
          /\ UNCHANGED <<conQueue, conRedelivered>>
     ELSE /\ conQueue' = Requeue(conQueue, m)
          /\ conRedelivered' = conRedelivered \cup {m}
          /\ conAcked' = conAcked

\* A publisher sends the next message to the exchange; the binding routes it
\* to the queue.
ConPublish ==
  /\ \E m \in Msgs, body \in Bodies :
       /\ conBody[m] = ""
       /\ \A k \in Msgs : k < m => conBody[k] /= ""
       /\ conBody' = [conBody EXCEPT ![m] = body]
       /\ conQueue' = Append(conQueue, m)
  /\ UNCHANGED <<conBuf, conPc, conCur, conLast, conRedelivered, conHandled, conAcked, notConVars>>

\* The broker pushes the head of the queue to the consumer (no prefetch
\* limit is set on the channel).
ConDeliver(m) ==
  /\ conPc /= "stopped"
  /\ conQueue /= <<>>
  /\ Head(conQueue) = m
  /\ conBuf' = Append(conBuf, m)
  /\ conQueue' = Tail(conQueue)
  /\ UNCHANGED <<conBody, conPc, conCur, conLast, conRedelivered, conHandled, conAcked, notConVars>>

\* rabbitmq.go lines 223-226: the loop receives a delivery.
ConReceive ==
  /\ conPc = "recv"
  /\ conBuf /= <<>>
  /\ conCur' = <<Head(conBuf)>>
  /\ conBuf' = Tail(conBuf)
  /\ conPc' = "handle"
  /\ UNCHANGED <<conBody, conQueue, conLast, conRedelivered, conHandled, conAcked, notConVars>>

\* rabbitmq.go lines 242-252: the handler runs; without an error the delivery
\* is acknowledged, with one the loop sleeps first.
ConHandle ==
  /\ conPc = "handle"
  /\ LET m == conCur[1] IN
     IF handleMessage(conBody[m])
     THEN /\ conPc' = "sleep"
          /\ UNCHANGED <<conQueue, conCur, conLast, conRedelivered, conHandled, conAcked>>
     ELSE /\ conHandled' = conHandled \cup {m}
          /\ Settled(m, FALSE)
  /\ UNCHANGED <<conBody, conBuf, notConVars>>

\* rabbitmq.go lines 247-249: the retry delay is over and the delivery is
\* settled.
ConRetry ==
  /\ conPc = "sleep"
  /\ Settled(conCur[1], TRUE)
  /\ UNCHANGED <<conBody, conBuf, conHandled, notConVars>>

\* rabbitmq.go lines 221-222: the context is done and the loop returns.
ConStop ==
  /\ conPc = "recv"
  /\ conPc' = "stopped"
  /\ UNCHANGED <<conBody, conQueue, conBuf, conCur, conLast, conRedelivered, conHandled, conAcked,
                 notConVars>>

InitCons ==
  /\ OrderIdle
  /\ ToIdle
  /\ ErrIdle
  /\ ValIdle
  /\ UsrIdle
  /\ GwIdle
  /\ GetIdle
  /\ EntIdle
  /\ ConIdle

NextCons ==
  \/ ConPublish
  \/ \E m \in Msgs : ConDeliver(m)
  \/ ConReceive
  \/ ConHandle
  \/ ConRetry
  \/ ConStop

\* The broker pushes every message that is ready at the head of the queue,
\* and the consumer goroutine keeps running until its context is done.
SpecCons ==
  /\ InitCons
  /\ [][NextCons]_vars
  /\ \A m \in Msgs : SF_vars(ConDeliver(m))
  /\ WF_vars(ConReceive)
  /\ WF_vars(ConHandle)
  /\ WF_vars(ConRetry)

(***************************************************************************)
(* SpecTo: the deadlines of CreateOrder's outbound calls                   *)
(***************************************************************************)

\* config.go line 97: GRPC_TIMEOUT, in units of time.
GRPCTimeout == 2

\* The clock is read up to this time.
MaxTicks == 4

\* Bound on the requests handled one after the other.
MaxToReqs == 2

\* The inbound paths of the orders service.
Entries == {"http", "grpc"}

Steps == {"lookup", "create", "publish"}

\* The deadline of the request context: UnaryServerInterceptor sets one
\* (part_006 lines 39-44); HTTPHandler.CreateOrder passes the context of
\* the HTTP request, which has none (http.go line 56).
RequestDeadline(entry) == IF entry = "grpc" THEN GRPCTimeout ELSE 0

\* context.WithTimeout: the earlier of the parent's deadline and now + d.
WithTimeout(parent, now, d) == IF parent /= 0 /\ parent < now + d THEN parent ELSE now + d

\* The deadline of the context an outbound call runs with: the lookup goes
\* through UnaryClientInterceptor (part_006 lines 87-92), Create and
\* Publish get the request context as it is.
CallDeadline(step, ctxDeadline, now) ==
  IF step = "lookup" THEN WithTimeout(ctxDeadline, now, GRPCTimeout) ELSE ctxDeadline

ToPending == toPc \in Steps

ToGoto(step) ==
  /\ toPc' = step
  /\ toCall' = CallDeadline(step, toCtx, toNow)
  /\ toResult' = toResult

ToReturn(res) ==
  /\ toPc' = "done"
  /\ toCall' = 0
  /\ toResult' = res

\* A valid request for a known user arrives on one of the paths; the service
\* is fully wired. CreateOrder runs up to the lookup call.
ToRequest ==
  /\ toPc \in {"idle", "done"}
  /\ toCount < MaxToReqs
  /\ \E entry \in Entries, hang \in Steps \cup {"none"} :
       /\ toReq' = [entry |-> entry, hang |-> hang]
       /\ toCtx' = RequestDeadline(entry)
       /\ toCall' = CallDeadline("lookup", RequestDeadline(entry), 0)
  /\ toPc' = "lookup"
  /\ toNow' = 0
  /\ toResult' = NoResult
  /\ toCount' = toCount + 1
  /\ UNCHANGED notToVars

\* Time passes while a call is pending, up to the deadline of its context.
ToTick ==
  /\ ToPending
  /\ toNow < MaxTicks
  /\ toCall = 0 \/ toNow < toCall
  /\ toNow' = toNow + 1
  /\ UNCHANGED <<toPc, toReq, toCtx, toCall, toResult, toCount, notToVars>>

ToOrder == [ID |-> 1, UserID |-> 1, Total |-> F(MaxTotal), Status |-> "pending"]

\* usecase.go lines 51-88: what CreateOrder does when the pending call
\* returns err ("" is nil).
ToAfter(step, err) ==
  CASE step = "lookup" ->
         IF err = "" THEN ToGoto("create")
         ELSE ToReturn(ErrResult(LookupError(
                FromGRPCStatus(StatusError(GDeadlineExceeded, err)), 1)))
    [] step = "create" ->
         IF err = "" THEN ToGoto("publish")
         ELSE ToReturn(ErrResult(CreateError(PlainError(err))))
    [] step = "publish" -> ToReturn(OkResult(ToOrder))

\* The collaborator answers the pending call.
ToRespond ==
  /\ ToPending
  /\ toReq.hang /= toPc
  /\ ToAfter(toPc, "")
  /\ UNCHANGED <<toReq, toNow, toCtx, toCount, notToVars>>

\* The deadline of the pending call's context has come: the call returns
\* the context's error.
ToTimeout ==
  /\ ToPending
  /\ toCall /= 0
  /\ toNow >= toCall
  /\ ToAfter(toPc, "context deadline exceeded")
  /\ UNCHANGED <<toReq, toNow, toCtx, toCount, notToVars>>

InitTo ==
  /\ OrderIdle
  /\ ErrIdle
  /\ ValIdle
  /\ UsrIdle
  /\ GwIdle
  /\ GetIdle
  /\ EntIdle
  /\ ConIdle
  /\ ToIdle

NextTo ==
  \/ ToRequest
  \/ ToTick
  \/ ToRespond
  \/ ToTimeout

\* Time passes, a collaborator that answers does so eventually, and an
\* expired context ends its call.
SpecTo ==
  /\ InitTo
  /\ [][NextTo]_vars
  /\ WF_vars(ToTick)
  /\ WF_vars(ToRespond)
  /\ WF_vars(ToTimeout)

(***************************************************************************)
(* Properties                                                              *)
(***************************************************************************)

Done(p) == pc[p] = "done"

\* The collaborator calls of an invocation, in order.
CollabCalls(p) == SelectSeq(calls[p], LAMBDA c : c.op /= "ctx.Done")

Made(p, op, out) == \E i \in DOMAIN calls[p] : calls[p][i] = Call(op, out)

Called(p, op) == \E i \in DOMAIN calls[p] : calls[p][i].op = op

\* The invocation committed a row.
Persisted(p) == Made(p, "Create", "OK")

\* The invocation got its event onto the exchange.
Emitted(p) == Made(p, "PublishOrderCreated", "OK")

\* The store and the exchange hold exactly what the invocations put there.
Accounted ==
  /\ Len(store) = Cardinality({p \in Procs : Persisted(p)})
  /\ Len(events) = Cardinality({p \in Procs : Emitted(p)})

LookupConfirmed(p) == Made(p, "GetUser", GOK)

ValidTotal(t) == FloatLT(F(0), t) /\ FloatLE(t, F(1000000))

\* The events on the exchange that carry the given order id.
EventsFor(id) == {i \in DOMAIN events : events[i].payload.id = id}

\* Texts the lookup RPC can fail with.
LookupTexts == {LookupMessage(c, u) : c \in GCodes, u \in UserIDs}

\* The message is the prefix alone or the prefix put before a lookup text.
BeginsWith(message, prefix) ==
  \/ message = prefix
  \/ \E t \in LookupTexts : message = prefix \o ": " \o t

\* Every Create and publish call of the invocation succeeded.
CollaboratorsWorked(p) ==
  \A i \in DOMAIN calls[p] :
    calls[p][i].op \in {"Create", "PublishOrderCreated"} => calls[p][i].out = "OK"

C1_Case(p) ==
  /\ Done(p)
  /\ userClient = "ok"
  /\ publisher = "ok"
  /\ LookupConfirmed(p)
  /\ ValidTotal(input[p].Total)
  /\ CollaboratorsWorked(p)

\* C1: a CreateOrder call whose user the remote lookup confirmed and whose
\* total is valid, with repository and publisher working, succeeds: the
\* returned order is pending, carries the identifier the store assigned (it
\* is the stored row), and exactly one order.created event was emitted for it.
C1_CreateOrderSuccess ==
  \A p \in Procs :
    C1_Case(p) =>
      /\ result[p].kind = "ok"
      /\ LET o == result[p].order[1] IN
         /\ o.Status = "pending"
         /\ o.ID /= 0
         /\ o.ID \in DOMAIN store
         /\ store[o.ID] = o
         /\ o.UserID = input[p].UserID
         /\ o.Total = input[p].Total
         /\ Cardinality(EventsFor(o.ID)) = 1
      /\ Len(SelectSeq(calls[p], LAMBDA c : c.op = "PublishOrderCreated")) = 1

C1_Witness == \E p \in Procs : C1_Case(p) /\ result[p].kind = "ok"

\* C2: when the lookup reports NotFound, CreateOrder fails with a Validation
\* error (not NotFound) whose details are {user_id: requested id}; the call
\* persists no order and emits no event.
C2_UserNotFoundIsValidation ==
  \A p \in Procs :
    (Done(p) /\ Made(p, "GetUser", GNotFound)) =>
      /\ result[p].kind = "err"
      /\ result[p].err[1].typ = "app"
      /\ result[p].err[1].Code = "VALIDATION_ERROR"
      /\ result[p].err[1].Details = << <<"user_id", input[p].UserID>> >>
      /\ ~Called(p, "Create")
      /\ ~Called(p, "PublishOrderCreated")
      /\ Accounted

C2_Witness ==
  \E p \in Procs :
    /\ Done(p)
    /\ Made(p, "GetUser", GNotFound)
    /\ input[p].UserID = 2
    /\ result[p].kind = "err"

\* The total is invalid: total <= 0 or total > 1,000,000.
InvalidTotal(t) == FloatLE(t, F(0)) \/ FloatGT(t, F(1000000))

InvalidTotalDone(p) == Done(p) /\ InvalidTotal(input[p].Total)

IsValidationResult(p) ==
  /\ result[p].kind = "err"
  /\ result[p].err[1].typ = "app"
  /\ result[p].err[1].Code = "VALIDATION_ERROR"

\* C3 (as claimed): an invalid total fails with Validation before any
\* collaborator call: the invocation makes no lookup, Create or publish call
\* (stated for a lookup client that is constructed or absent).
C3_InvalidTotalBeforeLookup ==
  \A p \in Procs :
    (InvalidTotalDone(p) /\ userClient /= "typednil") =>
      (IsValidationResult(p) /\ CollabCalls(p) = <<>>)

\* C3 (amended): an invalid total never reaches the repository or the
\* publisher and never returns success; the lookup, when a client is set, is
\* made first, and the call fails with Validation whenever no client is set
\* or the lookup confirmed the user or reported NotFound.
C3_InvalidTotalNoWrite ==
  \A p \in Procs :
    InvalidTotalDone(p) =>
      /\ result[p].kind /= "ok"
      /\ ~Called(p, "Create")
      /\ ~Called(p, "PublishOrderCreated")
      /\ (userClient = "ok") => (Len(CollabCalls(p)) = 1 /\ Called(p, "GetUser"))
      /\ (userClient = "nil" \/ LookupConfirmed(p) \/ Made(p, "GetUser", GNotFound))
           => IsValidationResult(p)
      /\ Accounted

C3_Witness ==
  \E p \in Procs :
    /\ InvalidTotalDone(p)
    /\ LookupConfirmed(p)
    /\ IsValidationResult(p)
    /\ result[p].err[1].Message = "total cannot exceed 1,000,000"

LookupFailedOther(p) ==
  \E i \in DOMAIN calls[p] :
    calls[p][i].op = "GetUser" /\ calls[p][i].out \notin {GOK, GNotFound}

\* C4: when the lookup fails with any kind other than NotFound, CreateOrder
\* fails with kind Internal and a message beginning "failed to validate
\* user", and no order is constructed or persisted.
C4_LookupFailureIsInternal ==
  \A p \in Procs :
    (Done(p) /\ LookupFailedOther(p)) =>
      /\ result[p].kind = "err"
      /\ result[p].err[1].typ = "app"
      /\ result[p].err[1].Code = "INTERNAL_ERROR"
      /\ BeginsWith(result[p].err[1].Message, "failed to validate user")
      /\ order[p] = <<>>
      /\ ~Called(p, "Create")

ValidRequest(p) ==
  /\ input[p].UserID /= 0
  /\ ValidTotal(input[p].Total)
  /\ (userClient = "ok") => LookupConfirmed(p)
  /\ CollaboratorsWorked(p)

\* C5: started with an unset user client or publisher variable, CreateOrder
\* skips that step, raises no fault, and a valid request still returns the
\* persisted order as success.
C5_DegradedMode ==
  \A p \in Procs :
    (Done(p) /\ (userClient = "typednil" \/ publisher = "typednil")) =>
      /\ result[p].kind /= "panic"
      /\ ValidRequest(p) =>
           /\ result[p].kind = "ok"
           /\ Persisted(p)
           /\ store[result[p].order[1].ID] = result[p].order[1]

PublishFailed(p) ==
  \E i \in DOMAIN calls[p] :
    calls[p][i].op = "PublishOrderCreated" /\ calls[p][i].out /= "OK"

\* C6: when Create succeeded and the publish call returns an error,
\* CreateOrder returns the persisted order as success, and the row stays in
\* the store.
C6_PublishFailureIgnored ==
  \A p \in Procs :
    (Done(p) /\ Persisted(p) /\ PublishFailed(p)) =>
      /\ result[p].kind = "ok"
      /\ result[p].order[1].ID \in DOMAIN store
      /\ store[result[p].order[1].ID] = result[p].order[1]
      /\ EventsFor(result[p].order[1].ID) = {}
      /\ Accounted

C6_Witness == \E p \in Procs : Done(p) /\ Persisted(p) /\ PublishFailed(p)

CreateFailed(p) ==
  \E i \in DOMAIN calls[p] : calls[p][i].op = "Create" /\ calls[p][i].out /= "OK"

\* C7: when repository Create fails, CreateOrder returns kind Internal with
\* message "failed to create order"; the call persists no order and emits no
\* event.
C7_CreateFailureIsInternal ==
  \A p \in Procs :
    (Done(p) /\ CreateFailed(p)) =>
      /\ result[p].kind = "err"
      /\ result[p].err[1].typ = "app"
      /\ result[p].err[1].Code = "INTERNAL_ERROR"
      /\ result[p].err[1].Message = "failed to create order"
      /\ ~Persisted(p)
      /\ ~Called(p, "PublishOrderCreated")
      /\ Accounted

C7_Witness ==
  \E p \in Procs :
    /\ Done(p)
    /\ Made(p, "Create", "connection refused")
    /\ result[p].kind = "err"

\* The context finished before a Create of the invocation had committed.
CancelledBeforeCreate(p) ==
  \E i \in DOMAIN calls[p] :
    /\ calls[p][i].op = "ctx.Done"
    /\ \A j \in 1 .. (i - 1) : calls[p][j] /= Call("Create", "OK")

C9_OnlyConfirmedOrdersPersisted ==
  \A p \in Procs :
    (userClient /= "nil") =>
      /\ (pc[p] = "create" \/ Called(p, "Create")) =>
           /\ \E i \in DOMAIN calls[p] :
                /\ calls[p][i] = Call("GetUser", GOK)
                /\ \A j \in 1 .. i : calls[p][j].op /= "Create"
           /\ input[p].UserID \in RemoteUsers
           /\ order[p] /= <<>>
           /\ order[p][1].UserID = input[p].UserID
           /\ order[p][1].UserID /= 0
           /\ ValidTotal(order[p][1].Total)
           /\ order[p][1].Status = "pending"
      /\ Persisted(p) =>
           /\ order[p][1].ID \in DOMAIN store
           /\ store[order[p][1].ID] = order[p][1]

C9_Witness ==
  \E p \in Procs :
    /\ userClient = "ok"
    /\ Persisted(p)
    /\ store[order[p][1].ID].Total = F(1000000)

\* The kind an error is classified as: that of the first AppError on its
\* chain, Internal when there is none.
KindOf(e) == IF As(e) = <<>> THEN "INTERNAL_ERROR" ELSE As(e)[1].Code

\* The status table of the taxonomy.
ExpectedHTTP(kind) ==
  CASE kind = "VALIDATION_ERROR" -> 400
    [] kind = "NOT_FOUND" -> 404
    [] kind = "CONFLICT" -> 409
    [] kind = "UNAUTHORIZED" -> 401
    [] kind = "FORBIDDEN" -> 403
    [] OTHER -> 500

\* C10: HTTPStatus maps an error to the status of its kind by the table
\* (500 for Internal, for a code outside the taxonomy and for an error that
\* is no AppError), and ToJSON returns that status with a body whose
\* error.code is the kind.
C10_HTTPStatusTable ==
  /\ (errOut.fn \in {"HTTPStatus", "ToJSON"}) =>
       errOut.status = ExpectedHTTP(KindOf(errOut.arg[1]))
  /\ (errOut.fn = "ToJSON") =>
       errOut.body[1].error.code = KindOf(errOut.arg[1])

C10_Witness ==
  /\ errOut.fn = "ToJSON"
  /\ Depth(errOut.arg[1]) = 2
  /\ errOut.status = 401
  /\ errOut.body[1].error.code = "UNAUTHORIZED"

\* The RPC code of each kind.
ExpectedGRPC(kind) ==
  CASE kind = "VALIDATION_ERROR" -> "InvalidArgument"
    [] kind = "NOT_FOUND" -> "NotFound"
    [] kind = "CONFLICT" -> "AlreadyExists"
    [] kind = "UNAUTHORIZED" -> "Unauthenticated"
    [] kind = "FORBIDDEN" -> "PermissionDenied"
    [] OTHER -> "Internal"

\* The RPC codes the table gives to a kind other than Internal.
MappedGRPC == {ExpectedGRPC(k) : k \in Codes \ {"INTERNAL_ERROR"}}

\* C11: GRPCStatus maps an error of each of the six kinds to the RPC code of
\* the table; FromGRPCStatus applied to that status yields the same kind
\* again; FromGRPCStatus maps every RPC code outside the table to Internal.
C11_GRPCTablesInverse ==
  \A i \in DOMAIN errTrail :
    /\ (errTrail[i].fn = "GRPCStatus" /\ KindOf(errTrail[i].arg) \in Codes) =>
         /\ errTrail[i].res.typ = "status"
         /\ errTrail[i].res.Code = ExpectedGRPC(KindOf(errTrail[i].arg))
         /\ (i < Len(errTrail) /\ errTrail[i + 1].fn = "FromGRPCStatus") =>
              /\ errTrail[i + 1].res.typ = "app"
              /\ errTrail[i + 1].res.Code = KindOf(errTrail[i].arg)
    /\ (errTrail[i].fn = "FromGRPCStatus" /\ errTrail[i].arg.typ = "status"
          /\ errTrail[i].arg.Code \notin MappedGRPC) =>
         /\ errTrail[i].res.typ = "app"
         /\ errTrail[i].res.Code = "INTERNAL_ERROR"

C11_Witness ==
  /\ Len(errTrail) = 2
  /\ errTrail[1].fn = "GRPCStatus"
  /\ KindOf(errTrail[1].arg) = "CONFLICT"
  /\ errTrail[2].fn = "FromGRPCStatus"
  /\ errTrail[2].res.Code = "CONFLICT"


\* The innermost error of an Unwrap chain.
RECURSIVE Root(_)
Root(e) == IF e.Err = NoErr THEN e ELSE Root(e.Err[1])

\* RPC codes FromGRPCStatus does not know (its default branch), Internal
\* itself apart.
UnrecognizedCodes == GCodes \ (MappedGRPC \cup {"OK", "Internal"})

\* The error started as one that is no taxonomy error, or as an RPC error
\* with an unrecognized code.
Unclassified(e) ==
  \/ Root(e).typ = "plain"
  \/ Root(e).typ = "status" /\ Root(e).Code \in UnrecognizedCodes

\* The context messages Wrap is called with, nested up to n times.
RECURSIVE WrapContexts(_)
WrapContexts(n) ==
  IF n = 0 THEN {}
  ELSE {"failed to validate user"}
         \cup {"failed to validate user: " \o m : m \in WrapContexts(n - 1)}

\* The message holds a fixed text of the program and nothing of the cause.
GenericMessage(message) ==
  \/ message \in {"An internal error occurred", "internal error"}
  \/ message \in WrapContexts(MaxWrap)

\* C12: an error that is no taxonomy error, and an RPC error with an
\* unrecognized code, reach the end client (JSON body or RPC status message)
\* as Internal with a generic message, also after Wrap: the original text is
\* not in the exposed message.
C12_NoDiagnosticLeak ==
  /\ (errOut.fn = "ToJSON" /\ Unclassified(errOut.arg[1])) =>
       /\ errOut.body[1].error.code = "INTERNAL_ERROR"
       /\ GenericMessage(errOut.body[1].error.message)
  /\ \A i \in DOMAIN errTrail :
       (errTrail[i].fn = "GRPCStatus" /\ Unclassified(errTrail[i].arg)) =>
         /\ errTrail[i].res.Code = "Internal"
         /\ GenericMessage(errTrail[i].res.Message)


\* The message is m put before the message of e.
Prefixed(message, m, e) == message = m \o ": " \o e.Message

\* C13: Wrap(e, m) of an error e with an AppError on its chain has that
\* AppError's kind and details and the message "m: <its message>";
\* Is(Wrap(e, m), K) holds exactly for K the kind of e, after any number of
\* wraps; Wrap of an error with no AppError on its chain is Internal.
C13_WrapKeepsKind ==
  \A i \in DOMAIN errTrail :
    (errTrail[i].fn = "Wrap") =>
      LET e == errTrail[i].arg
          w == errTrail[i].res
      IN /\ w.typ = "app"
         /\ w.Err = <<e>>
         /\ (As(e) /= <<>>) =>
              /\ w.Code = As(e)[1].Code
              /\ w.Details = As(e)[1].Details
              /\ Prefixed(w.Message, "failed to validate user", As(e)[1])
              /\ \A k \in Codes \cup {"TEAPOT"} : Is(w, k) <=> (k = As(e)[1].Code)
         /\ (As(e) = <<>>) =>
              /\ w.Code = "INTERNAL_ERROR"
              /\ \A k \in Codes : Is(w, k) <=> (k = "INTERNAL_ERROR")

C13_Witness ==
  /\ Len(errTrail) = 2
  /\ errTrail[1].fn = "Wrap"
  /\ errTrail[2].fn = "Wrap"
  /\ errTrail[1].arg.Code = "CONFLICT"
  /\ errTrail[1].arg.Details /= <<>>
  /\ errTrail[2].res.Code = "CONFLICT"
  /\ errTrail[2].res.Details = errTrail[1].arg.Details


\* C18: Order.Validate accepts an order iff its user id is non-zero and
\* 0 < total <= 1,000,000; otherwise it returns the Validation error of the
\* first failing check: user id, lower bound, upper bound.
C18_OrderValidate ==
  (valOut.fn = "Order.Validate") =>
    LET o == valIn.order IN
    /\ (valOut.err = <<>>) <=> (o.UserID /= 0 /\ ValidTotal(o.Total))
    /\ (valOut.err /= <<>>) =>
         /\ valOut.err[1].Code = "VALIDATION_ERROR"
         /\ valOut.err[1].Message =
              IF o.UserID = 0 THEN "user_id is required"
              ELSE IF ~FloatLT(F(0), o.Total) THEN "total must be greater than 0"
              ELSE "total cannot exceed 1,000,000"

\* The user passes the four checks.
ValidUser(u) ==
  /\ u.Name /= <<>>
  /\ Len(u.Name) >= 2
  /\ Len(u.Name) <= 100
  /\ u.Email /= <<>>
  /\ u.Email \in ValEmailsGood

\* C19: User.Validate returns the Validation error of the first failing
\* check in the order name-empty, name length outside [2,100], email-empty,
\* email-pattern mismatch, and accepts exactly the users that pass all four.
C19_UserValidate ==
  (valOut.fn = "User.Validate") =>
    LET u == valIn.user IN
    /\ (valOut.err = <<>>) <=> ValidUser(u)
    /\ (valOut.err /= <<>>) =>
         /\ valOut.err[1].Code = "VALIDATION_ERROR"
         /\ valOut.err[1].Message =
              IF u.Name = <<>> THEN "name is required"
              ELSE IF Len(u.Name) < 2 \/ Len(u.Name) > 100
                THEN "name must be between 2 and 100 characters"
              ELSE IF u.Email = <<>> THEN "email is required"
              ELSE "email format is invalid"

C19_Witness ==
  /\ valOut.fn = "User.Validate"
  /\ Len(valIn.user.Name) = 101
  /\ valIn.user.Email = <<>>
  /\ valOut.err /= <<>>
  /\ valOut.err[1].Message = "name must be between 2 and 100 characters"


UsrDone(p) == usrPc[p] = "done"

UsrSucceeded(p) == UsrDone(p) /\ usrResult[p].kind = "ok"

UsrMade(p, op, out) == \E i \in DOMAIN usrCalls[p] : usrCalls[p][i] = Call(op, out)

UsrCalled(p, op) == \E i \in DOMAIN usrCalls[p] : usrCalls[p][i].op = op

\* No statement of the invocation failed for a reason of the database's own.
UsrStorageWorked(p) ==
  \A i \in DOMAIN usrCalls[p] : usrCalls[p][i].out /= "connection refused"

\* C20: among CreateUser calls that use the same email at most one succeeds
\* and stores a user, every other such call with a valid input fails with
\* Conflict, never with Validation or Internal; no two stored users share an
\* email.
C20_EmailUniqueConflict ==
  /\ \A p, q \in UsrProcs :
       (p /= q /\ UsrDone(p) /\ UsrDone(q) /\ usrIn[p].Email = usrIn[q].Email
          /\ UserValidate(usrIn[p]) = <<>> /\ UsrStorageWorked(p)) =>
         /\ ~(UsrSucceeded(p) /\ UsrSucceeded(q))
         /\ UsrSucceeded(q) =>
              /\ usrResult[p].kind = "err"
              /\ usrResult[p].err[1].typ = "app"
              /\ usrResult[p].err[1].Code = "CONFLICT"
  /\ \A r1, r2 \in usrStore : (r1.Email = r2.Email) => (r1 = r2)

\* The stored users have distinct emails and distinct ids.
C20_StoreUnique ==
  \A r1, r2 \in usrStore : (r1.Email = r2.Email \/ r1.ID = r2.ID) => (r1 = r2)


\* The request is answered.
Answered == gwPc = "idle" /\ gwResp /= NoResp

\* C14: an error of kind K returned by the orders or users use case behind
\* the gateway reaches the gateway's HTTP client with the status and the
\* code of K, after GRPCStatus in the server interceptor, FromGRPCStatus in
\* the client interceptor and FromGRPCStatus in the gateway handler.
C14_GatewayKeepsKind ==
  (Answered /\ gwReq.entry = "gateway" /\ gwOutcome.kind = "err") =>
    /\ gwResp.transport = "http"
    /\ gwResp.status = ExpectedHTTP(KindOf(gwOutcome.err[1]))
    /\ gwResp.body[1].error.code = KindOf(gwOutcome.err[1])

C14_Witness ==
  /\ Answered
  /\ gwReq.entry = "gateway"
  /\ gwReq.svc = "orders"
  /\ gwOutcome.kind = "err"
  /\ gwOutcome.err[1].Message = "user not found"
  /\ gwResp.status = 400

\* C15: a panic while handling a request, over HTTP or over gRPC, is caught
\* at the transport boundary and answered with a generic Internal response
\* carrying the request's trace id, and the service process keeps running.
C15_PanicContained ==
  /\ \A s \in Services : gwAlive[s]
  /\ (Answered /\ gwOutcome.kind = "panic") =>
       IF gwResp.transport = "http"
       THEN /\ gwResp.status = 500
            /\ gwResp.body[1].error.code = "INTERNAL_ERROR"
            /\ gwResp.body[1].error.message = "An internal error occurred"
            /\ gwResp.body[1].trace_id = gwHops.http
       ELSE /\ gwResp.err /= <<>>
            /\ gwResp.err[1].Code = "Internal"
            /\ gwResp.err[1].Message = "internal error"

\* Identifiers uuid.New can have returned.
Uuids == {Uuid(n) : n \in 1 .. (2 * MaxReqs)}

\* C16: every HTTP response carries the request's trace id: the inbound
\* X-Trace-ID when there is one, else a generated non-empty one; the body's
\* trace_id equals the X-Trace-ID response header.
C16_ResponseCarriesTrace ==
  (gwResp.transport = "http") =>
    /\ gwResp.header /= ""
    /\ (gwReq.header /= "") => gwResp.header = gwReq.header
    /\ (gwReq.header = "") => gwResp.header \in Uuids
    /\ gwResp.body[1].trace_id = gwResp.header

C16_Witness ==
  /\ gwResp.transport = "http"
  /\ gwOutcome.kind = "panic"
  /\ gwReq.header = ""
  /\ gwResp.body[1].trace_id = "u-1"

\* C17: the trace id of an inbound gateway request is the one every
\* downstream step works with: the service's RPC handler, the user lookup of
\* the orders service, the trace_id field and the x-trace-id header of the
\* published event; an id is generated only where the incoming call carries
\* none.
C17_TracePropagated ==
  LET steps == {gwHops.rpc, gwHops.lookup, gwHops.event, gwHops.eventHeader} \ {"-"} IN
  /\ (gwReq.entry = "gateway") =>
       /\ gwHops.http = gwReq.trace
       /\ \A t \in steps : t = gwReq.trace
  /\ (gwReq.entry /= "" /\ gwReq.header /= "") =>
       \A t \in steps \cup ({gwHops.http} \ {"-"}) : t = gwReq.header
  /\ (gwReq.entry /= "" /\ gwReq.header = "") =>
       \A t \in steps \cup ({gwHops.http} \ {"-"}) : t \in Uuids /\ t = Uuid(gwUuid)

C17_Witness ==
  /\ Answered
  /\ gwReq.entry = "gateway"
  /\ gwReq.svc = "orders"
  /\ gwReq.header = "t-1"
  /\ gwHops.rpc = "t-1"
  /\ gwHops.lookup = "t-1"
  /\ gwHops.event = "t-1"
  /\ gwHops.eventHeader = "t-1"


(***************************************************************************)
(* Users: CreateUser                                                       *)
(***************************************************************************)

UsrStarted(p) == usrPc[p] /= "idle"

ValidInput(p) == UserValidate([ID |-> 0, Name |-> usrIn[p].Name, Email |-> usrIn[p].Email]) = <<>>

\* No other invocation asks for the email of p (the table starts empty).
NonDuplicate(p) == \A q \in UsrProcs \ {p} : usrIn[q].Email /= usrIn[p].Email

\* The rows and the events that carry the email of p's request.
UsrRowsFor(p) == {row \in usrStore : row.Email = usrIn[p].Email}

UsrEventsFor(p) == {i \in DOMAIN usrEvents : usrEvents[i].payload.email = usrIn[p].Email}

\* The table and the exchange hold exactly what the invocations put there.
UsrAccounted ==
  /\ Cardinality(usrStore) = Cardinality({p \in UsrProcs : UsrMade(p, "Create", "OK")})
  /\ Len(usrEvents) = Cardinality({p \in UsrProcs : UsrMade(p, "PublishUserCreated", "OK")})

\* An invalid request is answered with the validator's error at once: the
\* invocation made no call, so by UsrAccounted no row and no event is its.
InvalidUserRejected(p) ==
  (UsrStarted(p) /\ ~ValidInput(p)) =>
    /\ UsrDone(p)
    /\ usrResult[p].kind = "err"
    /\ usrResult[p].err[1].typ = "app"
    /\ usrResult[p].err[1].Code = "VALIDATION_ERROR"
    /\ usrCalls[p] = <<>>

\* C21 (as claimed): CreateUser with an invalid name or email returns a
\* Validation error with no repository call made, no user stored and no event
\* emitted; every valid, non-duplicate CreateUser that has returned stored
\* exactly one user and emitted exactly one user.created event (read here
\* for invocations whose repository calls did not fail).
C21_ValidOneUserOneEvent ==
  /\ UsrAccounted
  /\ \A p \in UsrProcs :
       /\ InvalidUserRejected(p)
       /\ (UsrDone(p) /\ ValidInput(p) /\ NonDuplicate(p) /\ UsrStorageWorked(p)) =>
            /\ Cardinality(UsrRowsFor(p)) = 1
            /\ Cardinality(UsrEventsFor(p)) = 1

\* C21 (amended): CreateUser with an invalid name or email returns a
\* Validation error with no repository call made, no user stored and no event
\* emitted; a valid, non-duplicate CreateUser whose repository calls did not
\* fail stored exactly one user, with the requested name and a store-assigned
\* id, and emitted exactly one user.created event for it if the publish call
\* succeeded and none otherwise.
C21_ValidOneUserAtMostOneEvent ==
  /\ UsrAccounted
  /\ \A p \in UsrProcs :
       /\ InvalidUserRejected(p)
       /\ (UsrDone(p) /\ ValidInput(p) /\ NonDuplicate(p) /\ UsrStorageWorked(p)) =>
            /\ UsrMade(p, "Create", "OK")
            /\ Cardinality(UsrRowsFor(p)) = 1
            /\ \A row \in UsrRowsFor(p) : row.Name = usrIn[p].Name /\ row.ID /= 0
            /\ Cardinality(UsrEventsFor(p)) =
                 IF UsrMade(p, "PublishUserCreated", "OK") THEN 1 ELSE 0
            /\ \A i \in UsrEventsFor(p) : \E row \in UsrRowsFor(p) :
                 usrEvents[i] = NewUserCreatedEvent(row.ID, row.Name, row.Email)

C21_Witness ==
  \E p, q \in UsrProcs :
    /\ UsrDone(p) /\ ~ValidInput(p) /\ usrResult[p].kind = "err"
    /\ UsrDone(q) /\ ValidInput(q) /\ NonDuplicate(q) /\ UsrStorageWorked(q)
    /\ UsrMade(q, "PublishUserCreated", "OK")
    /\ Cardinality(UsrEventsFor(q)) = 1


(***************************************************************************)
(* Orders: GetOrder and identifiers                                        *)
(***************************************************************************)

Succeeded(p) == Done(p) /\ result[p].kind = "ok"

GetCalled == getOut /= NoGet

\* The GetOrder call ran its query, after the order that CreateOrder
\* returned to p was committed, and asked for that order.
GotOrderOf(p) ==
  /\ GetCalled
  /\ getOut.db = ""
  /\ getOut.id \in 1 .. getOut.at
  /\ Succeeded(p)
  /\ getOut.id = result[p].order[1].ID

C22_Returns ==
  GetCalled =>
    /\ getOut.err = getOut.repo.err
    /\ getOut.order = getOut.repo.order
    /\ (getOut.db = "" /\ getOut.id \notin 1 .. getOut.at) =>
         /\ getOut.order = <<>>
         /\ getOut.err = <<NewNotFound("order", getOut.id)>>
         /\ getOut.err[1].Code = "NOT_FOUND"
    /\ \A p \in Procs :
         GotOrderOf(p) =>
           /\ getOut.err = <<>>
           /\ getOut.order[1].ID = result[p].order[1].ID
           /\ getOut.order[1].UserID = result[p].order[1].UserID
           /\ getOut.order[1].Total = result[p].order[1].Total
           /\ getOut.order[1].Status = result[p].order[1].Status

\* A step that makes a GetOrder call leaves the table and the exchange alone.
C22_ReadOnly == (getOut' /= getOut) => UNCHANGED <<store, events>>

\* C22: GetOrder returns what GetByID returns, error included and unchanged:
\* NotFound for an id never created, and for an id a successful CreateOrder
\* returned an order equal to it in id, user id, total and status; a GetOrder
\* call changes no stored order and emits no event.
C22_GetOrderPassthrough == [](C22_Returns) /\ [][C22_ReadOnly]_vars

C22_Witness == \E p \in Procs : GotOrderOf(p) /\ getOut.order /= <<>> /\ store /= <<>>

\* C23: in every interleaving, successful CreateOrder calls hold pairwise
\* distinct identifiers, and GetByID returns each order by its identifier
\* with its own user id and total, also once all calls have returned.
C23_DistinctRetrievable ==
  /\ \A p, q \in Procs :
       (p /= q /\ Succeeded(p) /\ Succeeded(q)) => result[p].order[1].ID /= result[q].order[1].ID
  /\ \A p \in Procs :
       Succeeded(p) =>
         LET r == GetByID(result[p].order[1].ID, "") IN
         /\ r.err = <<>>
         /\ r.order[1].ID = result[p].order[1].ID
         /\ r.order[1].UserID = input[p].UserID
         /\ r.order[1].Total = input[p].Total

C23_Witness ==
  /\ \A q \in Procs : Succeeded(q) /\ ValidTotal(input[q].Total)
  /\ \A q \in Procs : GetByID(result[q].order[1].ID, "").order = result[q].order
  /\ Len(store) = MaxCalls


(***************************************************************************)
(* Orders: status transitions                                              *)
(***************************************************************************)

C24_Step ==
  /\ (entOrder.Status /= "pending") => (entOrder'.Status = entOrder.Status)
  /\ (entOrder'.Status /= entOrder.Status) =>
       /\ entOrder.Status = "pending"
       /\ entOrder'.Status \in {"confirmed", "cancelled"}
       /\ entOrder'.UpdatedAt = entNow

\* C24: the status of an order changes only from pending to confirmed or
\* from pending to cancelled, so a confirmed or cancelled order keeps its
\* status under every later Confirm and Cancel; a transition sets the
\* last-update timestamp to the time of the call.
C24_StatusTransitions == [][C24_Step]_vars


(***************************************************************************)
(* Consumer: settlement and redelivery                                     *)
(***************************************************************************)

Published(m) == conBody[m] /= ""

InQueue(m) == \E i \in DOMAIN conQueue : conQueue[i] = m

\* How often message m is held by the broker or the consumer: ready in the
\* queue, pushed to the consumer, or being handled.
Copies(m) ==
  Cardinality({i \in DOMAIN conQueue : conQueue[i] = m})
  + Cardinality({i \in DOMAIN conBuf : conBuf[i] = m})
  + (IF conCur = <<m>> THEN 1 ELSE 0)

C25_Settled ==
  /\ (conLast /= NoDelivery) =>
       /\ conLast.op \in {"ack", "nack-requeue"}
       /\ (conLast.op = "ack") = (~conLast.err)
       /\ conLast.err = handleMessage(conBody[conLast.msg])
       /\ (conLast.op = "nack-requeue") => conLast.msg \in conRedelivered
  /\ \A m \in Msgs :
       /\ (m \in conAcked) => (m \in conHandled /\ Copies(m) = 0)
       /\ (Published(m) /\ m \notin conAcked) => Copies(m) = 1
       /\ (m \in conRedelivered) => (handleMessage(conBody[m]) /\ m \notin conAcked)

\* A requeued message reaches the handler again while the consumer runs.
C25_Redelivered ==
  \A m \in Msgs :
    (m \in conRedelivered /\ InQueue(m)) ~> (conCur = <<m>> \/ conPc = "stopped")

\* C25: a delivery is settled once, with an acknowledgement iff the handler
\* returned no error and otherwise, after the retry delay, with a negative
\* acknowledgement that requeues it; a message whose handler failed stays
\* with the broker and is delivered again, and no message is acknowledged
\* without a successful handler run.
C25_AtLeastOnce == [](C25_Settled) /\ C25_Redelivered

C25_Witness ==
  \E m \in Msgs :
    /\ m \in conRedelivered
    /\ conCur = <<m>>
    /\ conLast = [msg |-> m, err |-> TRUE, op |-> "nack-requeue"]
    /\ conAcked /= {}

\* C30: a message whose handler fails on every delivery eventually leaves
\* the queue for good (while the consumer runs), and every message with a
\* body the handler accepts is eventually handled.
C30_PoisonRemoved ==
  \A m \in Msgs :
    /\ (conBody[m] = "garbage") ~> (conPc = "stopped" \/ [](Copies(m) = 0))
    /\ (conBody[m] = "json") ~> (conPc = "stopped" \/ m \in conHandled)


(***************************************************************************)
(* Orders: timeouts of the outbound calls                                   *)
(***************************************************************************)

\* CreateOrder returned an error; in SpecTo the collaborators answer with
\* success or not at all, so the error is that of an expired context.
ToTimedOut ==
  /\ toPc = "done"
  /\ toResult.kind = "err"

C26_TimeoutIsInternal ==
  ToTimedOut =>
    /\ toResult.err[1].typ = "app"
    /\ toResult.err[1].Code = "INTERNAL_ERROR"

\* C26: on the HTTP path and on the gRPC path every outbound call of
\* CreateOrder runs under a deadline, so CreateOrder returns also when a
\* collaborator never answers, and a lookup or Create that timed out makes
\* it return Internal.
C26_CallsBounded ==
  /\ [](ToPending => toCall /= 0)
  /\ [](C26_TimeoutIsInternal)
  /\ (ToPending ~> (toPc = "done"))


(***************************************************************************)
(* Orders: each collaborator is called once, in order                      *)
(***************************************************************************)

\* The position of a collaborator call in CreateOrder.
StepRank(op) ==
  CASE op = "GetUser" -> 1
    [] op = "Create" -> 2
    [] op = "PublishOrderCreated" -> 3

CallOk(c) == c.out \in {GOK, "OK"}

\* The Create calls that committed, over all invocations.
RECURSIVE Commits(_)
Commits(S) ==
  IF S = {} THEN 0
  ELSE LET p == CHOOSE q \in S : TRUE
       IN Commits(S \ {p}) + Len(SelectSeq(calls[p], LAMBDA c : c = Call("Create", "OK")))

\* C27: within one CreateOrder invocation each collaborator is called at
\* most once and in the order lookup, Create, publish; a failed call is the
\* last one, and no Create follows a Create, whether it failed or committed
\* and was followed by a publish failure or a cancellation. Every stored row
\* comes from one committed Create call.
C27_OnceInOrder ==
  /\ \A p \in Procs :
       LET cc == CollabCalls(p) IN
       /\ \A i, j \in DOMAIN cc : i < j => StepRank(cc[i].op) < StepRank(cc[j].op)
       /\ \A i \in DOMAIN cc : ~CallOk(cc[i]) => i = Len(cc)
       /\ \A i, j \in DOMAIN calls[p] :
            (i < j /\ calls[p][i].op = "Create") => calls[p][j].op /= "Create"
  /\ Len(store) = Commits(Procs)

\* One invocation's Create failed; another's committed, was then cancelled
\* and its publish failed; both have returned.
C27_Witness ==
  \E p, q \in Procs :
    /\ pc[p] = "done"
    /\ pc[q] = "done"
    /\ calls[p] = <<Call("GetUser", GOK), Call("Create", "connection refused")>>
    /\ calls[q] = <<Call("GetUser", GOK), Call("Create", "OK"), Call("ctx.Done", ""),
                    Call("PublishOrderCreated", "failed to publish message")>>


(***************************************************************************)
(* Orders: emitted events and persisted orders                             *)
(***************************************************************************)

\* The stored row the event's payload describes.
RowOf(e) ==
  [ID |-> e.payload.id, UserID |-> e.payload.user_id, Total |-> e.payload.total,
   Status |-> "pending"]

\* The events emitted for the order of invocation p.
EventsOf(p) ==
  IF order[p] = <<>> THEN {}
  ELSE {i \in DOMAIN events : events[i].payload.id = order[p][1].ID}

\* C29: every emitted order.created event describes a stored order, one that
\* a committed Create of some invocation wrote, with its id, user id and
\* total and with status pending; distinct events describe distinct orders,
\* so there are never more events than stored orders; an invocation that
\* returned an error emitted nothing.
C29_EventsMatchOrders ==
  /\ \A i \in DOMAIN events :
       /\ events[i].payload.status = "pending"
       /\ \E k \in DOMAIN store : store[k] = RowOf(events[i])
       /\ \E p \in Procs :
            /\ Made(p, "Create", "OK")
            /\ order[p][1].ID = events[i].payload.id
  /\ \A i, j \in DOMAIN events : i /= j => events[i].payload.id /= events[j].payload.id
  /\ Len(events) <= Len(store)
  /\ \A p \in Procs :
       result[p].kind = "err" =>
         /\ ~Called(p, "PublishOrderCreated")
         /\ EventsOf(p) = {}

\* One invocation stored its order and emitted the event for it; another
\* returned an error.
C29_Witness ==
  \E p, q \in Procs :
    /\ result[p].kind = "ok"
    /\ Made(p, "PublishOrderCreated", "OK")
    /\ EventsOf(p) /= {}
    /\ result[q].kind = "err"


(***************************************************************************)
(* Gateway: error details across the RPC hop                               *)
(***************************************************************************)

\* The gateway answered an order creation that the orders use case refused
\* because the user does not exist.
UserNotFoundAnswered(uid) ==
  /\ gwReq.entry = "gateway"
  /\ gwReq.svc = "orders"
  /\ gwPc = "idle"
  /\ gwOutcome = [kind |-> "err", err |-> <<NewUserNotFoundError(uid)>>]
  /\ gwResp /= NoResp

\* C28: when order creation through the gateway fails because the user does
\* not exist, the gateway's JSON error body carries the details
\* {user_id: <id>} and the message of the error the use case returned.
C28_DetailsSurviveRPC ==
  \A uid \in UserIDs :
    UserNotFoundAnswered(uid) =>
      /\ gwResp.body[1].error.details = NewUserNotFoundError(uid).Details
      /\ gwResp.body[1].error.message = NewUserNotFoundError(uid).Message

====
